---- MODULE Spec2Model ----
(***************************************************************************)
(* The triage orchestration graph of graph-assignment: the TriageState     *)
(* container with its per-field reducers (src/src/state.py), the node      *)
(* functions (src/src/nodes.py) and the graph wiring (src/src/graph.py),   *)
(* driven from run_triage (src/src/main.py).                               *)
(*                                                                         *)
(* Python values.  A state field that is None or not yet written is None   *)
(* (the empty tuple); a field holding v is Some(v) (the 1-tuple <<v>>).    *)
(* A dict is a function from its keys; a list is a sequence.  A            *)
(* confidence c is the integer c * 100000 (0.7 is 70000, 0.69999 is        *)
(* 69999).                                                                 *)
(***************************************************************************)
EXTENDS Integers, Sequences, FiniteSets, TLC

VARIABLES
    pc,          \* the node the graph driver runs next; "END"; "raised"
    st,          \* the TriageState channels
    pending,     \* fetchers of the current superstep that have not run yet
    updates,     \* fetcher -> the partial update it returned this superstep
    branch,      \* the last value route_decision returned
    llmCalls,    \* number of _llm.invoke calls made in this run
    fetchCalls,  \* number of external fetcher calls made in this run
    intakeError, \* the error intake returned (None when it returned none)
    round,       \* number of fetch supersteps completed
    exc,         \* the exception that left app.invoke ("none" when none did)
    allRaised,   \* every external fetcher call made in this run has raised
    arg,         \* the state a node function called on its own was given
    reply,       \* the answer of the model such a call was given
    ret          \* the value such a call returned, when it is not an update

vars == <<pc, st, pending, updates, branch, llmCalls, fetchCalls, intakeError,
          round, exc, allRaised, arg, reply, ret>>

-----------------------------------------------------------------------------
(* Python values *)

None == <<>>
Some(v) == <<v>>

\* the dict {}
EmptyDict == [k \in {} |-> ""]

\* d.get(k, default) on a dict
DictGet(d, k, default) == IF k \in DOMAIN d THEN d[k] ELSE default

\* the value of an optional, or the default when it is None
OrElse(opt, default) == IF opt = None THEN default ELSE opt[1]

\* state.get(k, default) on the state: an unwritten channel gives the default
Get(state, k, default) == OrElse(state[k], default)

\* a JSON null / Python None where a string is expected
NoneStr == "None"

Contains(list, x) == \E i \in 1..Len(list) : list[i] = x

\* the matched_item of a correlation: null, a string, or a dict
NoItem == [kind |-> "null"]
ItemStr(text) == [kind |-> "str", text |-> text]
ItemDict(dict) == [kind |-> "dict", dict |-> dict]

-----------------------------------------------------------------------------
(* src/src/state.py *)

Fields ==
    {"ticket", "issue_type", "target_repos", "recent_prs",
     "recent_linear_tickets", "recent_intercom_tickets", "fetch_failures",
     "correlation_result", "recurring_pattern", "retry_count", "days_back",
     "reference_date", "recommendation", "verified", "error"}

\* mutant: the new value is stored even when it is None
keep_last_overwrite(current, new) == new

keep_last(current, new) == IF new # None THEN new ELSE current

RECURSIVE merge_loop(_, _)
merge_loop(merged, new) ==
    IF new = <<>> THEN merged
    ELSE merge_loop(IF Contains(merged, Head(new)) THEN merged
                    ELSE Append(merged, Head(new)),
                    Tail(new))

\* mutant: the lists are concatenated without removing duplicates
merge_lists_concat(current, new) ==
    OrElse(current, <<>>) \o OrElse(new, <<>>)

\* mutant: the merged list starts empty, so only the items that current
\* did not hold are kept
merge_lists_added(current, new) ==
    SelectSeq(merge_loop(OrElse(current, <<>>), OrElse(new, <<>>)),
              LAMBDA x : ~Contains(OrElse(current, <<>>), x))

merge_lists(current, new) ==
    merge_loop(OrElse(current, <<>>), OrElse(new, <<>>))

\* mutant: fetch_failures is reduced with keep_last like every other field
Reduce_keep_last(k, current, new) == keep_last(current, new)

\* mutant: the three fetched lists are merged like fetch_failures, so a
\* round adds to what the earlier rounds fetched
Reduce_accumulate(k, current, new) ==
    IF k \in {"fetch_failures", "recent_prs", "recent_linear_tickets",
              "recent_intercom_tickets"}
    THEN Some(merge_lists(current, new))
    ELSE keep_last(current, new)

\* the reducer TriageState annotates field k with
Reduce(k, current, new) ==
    IF k = "fetch_failures" THEN Some(merge_lists(current, new))
    ELSE keep_last(current, new)

\* {**state, k: v, ...}: the dict a node returns, holding the fields the
\* state holds and the fields the node writes
Spread(state, writes) ==
    [k \in {f \in Fields : state[f] # None} \cup DOMAIN writes |->
        IF k \in DOMAIN writes THEN writes[k] ELSE state[k]]

\* the driver applying one node's returned update to the channels
ApplyUpdate(state, update) ==
    [k \in Fields |->
        IF k \in DOMAIN update THEN Reduce(k, state[k], update[k]) ELSE state[k]]

-----------------------------------------------------------------------------
(* The inputs of a run: the ticket the provider returns, the reference     *)
(* date, the answers of the model and the results of the external calls.   *)

\* the arguments of run_triage a run draws from: the ticket the provider
\* returns for ticket_id (the empty dict; body missing; body empty; subject
\* and body filled) and reference_date (not given, or an ISO date)
RunInputs ==
    { [ticket |-> EmptyDict, reference_date |-> NoneStr],
      [ticket |-> [subject |-> "s"], reference_date |-> NoneStr],
      [ticket |-> [subject |-> "s", body |-> ""], reference_date |-> "2026-01-26"],
      [ticket |-> [subject |-> "s", body |-> "b"], reference_date |-> NoneStr],
      [ticket |-> [subject |-> "s", body |-> "b"], reference_date |-> "2026-01-26"] }

\* run_triage: initial_state = {"ticket": ticket} plus reference_date if given
InitialState(ticket, reference_date) ==
    [k \in Fields |->
        IF k = "ticket" THEN Some(ticket)
        ELSE IF k = "reference_date" /\ reference_date # NoneStr
             THEN Some(reference_date)
        ELSE None]

\* what _llm.invoke does: it raises, or returns text that holds no JSON
\* object, or text that holds the object obj
LlmRaise == [kind |-> "raise"]
LlmGarbage == [kind |-> "garbage"]
LlmJson(obj) == [kind |-> "json", obj |-> obj]

\* the result of a node: it raised an exception, or it returned an update
Raised(exception) == [raised |-> TRUE, exc |-> exception]
Returned(update) == [raised |-> FALSE, update |-> update]

\* _parse_json_response on the content of a response
_parse_json_response(resp) ==
    IF resp.kind = "json" THEN Returned(resp.obj) ELSE Raised("JSONDecodeError")

-----------------------------------------------------------------------------
(* src/src/nodes.py: intake and classify_issue_type *)

MissingFieldsError(missing) ==
    IF missing = <<"subject">> THEN "Ticket missing required fields: ['subject']"
    ELSE IF missing = <<"body">> THEN "Ticket missing required fields: ['body']"
    ELSE "Ticket missing required fields: ['subject', 'body']"

IsMissing(ticket, f) == DictGet(ticket, f, "") = ""

intake(state) ==
    LET ticket == Get(state, "ticket", <<>>)
        missing == SelectSeq(<<"subject", "body">>, LAMBDA f : IsMissing(ticket, f))
    IN  IF DOMAIN ticket = {}
        THEN Spread(state, ("error" :> Some("No ticket provided")))
        ELSE IF missing # <<>>
        THEN Spread(state, ("error" :> Some(MissingFieldsError(missing))))
        ELSE Spread(state, ("retry_count" :> Some(0)) @@
                           ("days_back" :> Some(1)) @@
                           ("fetch_failures" :> Some(<<>>)) @@
                           ("error" :> None))

REPO_MAP ==
    [frontend |-> <<"acme/web-frontend">>,
     backend  |-> <<"acme/api-backend">>,
     infra    |-> <<"acme/infrastructure">>,
     unclear  |-> <<"acme/web-frontend", "acme/api-backend">>]

\* state["ticket"], ticket["subject"], ticket["body"] all succeed
PromptTicketOk(state) ==
    /\ state.ticket # None
    /\ {"subject", "body"} \subseteq DOMAIN state.ticket[1]

\* the objects the model may answer the classification prompt with
AllClassifyOutputs ==
    { EmptyDict } \cup
    { [issue_type |-> t] : t \in {"frontend", "backend", "infra", "unclear", "mobile"} }

\* those of them a run of the graph draws from
ClassifyOutputs == { EmptyDict, [issue_type |-> "frontend"], [issue_type |-> "mobile"] }

LlmResponses(outputs) == {LlmRaise, LlmGarbage} \cup {LlmJson(o) : o \in outputs}

\* mutant: the reported category is stored as it is
classify_issue_type_raw(state, resp) ==
    IF ~PromptTicketOk(state) THEN Raised("KeyError")
    ELSE IF resp.kind = "raise" THEN Raised("ModelCallError")
    ELSE LET parsed == _parse_json_response(resp) IN
    IF parsed.raised THEN parsed
    ELSE LET result == parsed.update
             issue_type == DictGet(result, "issue_type", "unclear")
         IN  Returned(Spread(state,
                 ("issue_type" :> Some(issue_type)) @@
                 ("target_repos" :>
                      Some(IF issue_type \in DOMAIN REPO_MAP
                           THEN REPO_MAP[issue_type] ELSE REPO_MAP["unclear"]))))

classify_issue_type(state, resp) ==
    IF ~PromptTicketOk(state) THEN Raised("KeyError")
    ELSE IF resp.kind = "raise" THEN Raised("ModelCallError")
    ELSE LET parsed == _parse_json_response(resp) IN
    IF parsed.raised THEN parsed
    ELSE LET result == parsed.update
             reported == DictGet(result, "issue_type", "unclear")
             issue_type == IF reported \in DOMAIN REPO_MAP THEN reported ELSE "unclear"
         IN  Returned(Spread(state,
                 ("issue_type" :> Some(issue_type)) @@
                 ("target_repos" :> Some(REPO_MAP[issue_type]))))

-----------------------------------------------------------------------------
(* src/src/nodes.py: the three fetchers *)

Fetchers == {"github", "linear", "intercom"}

\* the largest number of records an external call returns
MaxItems == 1

\* the list an external call returns when it finds n records in its window
Records(source, days_back, n) ==
    [i \in 1..n |-> [source |-> source, days_back |-> days_back, idx |-> i]]

\* what an external call does: it raises, or it returns a list
CallRaise == [raised |-> TRUE]
CallReturn(list) == [raised |-> FALSE, list |-> list]

CallOutcomes(source, days_back) ==
    {CallRaise} \cup {CallReturn(Records(source, days_back, n)) : n \in 0..MaxItems}

\* mutant: fetch_linear returns its list under the key of fetch_github
ListField_crossed(source) ==
    IF source = "intercom" THEN "recent_intercom_tickets" ELSE "recent_prs"

\* the state field a fetcher writes its list to
ListField(source) ==
    IF source = "github" THEN "recent_prs"
    ELSE IF source = "linear" THEN "recent_linear_tickets"
    ELSE "recent_intercom_tickets"

\* the window and the date a fetcher passes to its external call:
\* fetch_github_prs(target_repos, days_back, reference_date),
\* fetch_linear_tickets(days_back, projects, reference_date) and
\* _intercom_provider.fetch_recent_tickets(days_back)
CallArgs(state, source) ==
    [days_back |-> Get(state, "days_back", 1),
     reference_date |-> IF source = "intercom" THEN NoneStr
                        ELSE Get(state, "reference_date", NoneStr)]

\* mutant: the except branch empties the list but records no failure
fetch_update_silent(state, source, outcome) ==
    LET failures == Get(state, "fetch_failures", <<>>)
        list == IF outcome.raised THEN <<>> ELSE outcome.list
    IN  Returned((ListField(source) :> Some(list)) @@
                 ("fetch_failures" :> Some(failures)))

\* the body shared by fetch_github, fetch_linear and fetch_intercom: the
\* try / except around the external call and the returned partial update
fetch_update(state, source, outcome) ==
    LET failures == Get(state, "fetch_failures", <<>>)
        list == IF outcome.raised THEN <<>> ELSE outcome.list
        failures2 == IF outcome.raised /\ ~Contains(failures, source)
                     THEN Append(failures, source) ELSE failures
    IN  Returned((ListField(source) :> Some(list)) @@
                 ("fetch_failures" :> Some(failures2)))

fetch_github(state, outcome) == fetch_update(state, "github", outcome)

fetch_linear(state, outcome) == fetch_update(state, "linear", outcome)

fetch_intercom(state, outcome) == fetch_update(state, "intercom", outcome)

-----------------------------------------------------------------------------
(* src/src/nodes.py: analyze_correlation, route_decision, widen_window *)

\* confidences the model may report, in units of 1/100000: the thresholds
\* 0.4 and 0.7, their neighbours and the ends of [0, 1]
AllConfidences == {0, 39999, 40000, 40001, 69999, 70000, 70001, 100000}

\* those of them a run of the graph draws from: one below 0.4, one in
\* [0.4, 0.7) and one from 0.7 up
Confidences == {0, 40000, 70000}

\* the objects the model may answer the correlation prompt with: each of
\* correlated, confidence and is_recurring present or omitted
CorrelationOutputs ==
    { [k \in K |->
          IF k = "confidence" THEN o.confidence
          ELSE IF k = "correlated" THEN o.correlated ELSE o.is_recurring] :
      K \in SUBSET {"correlated", "confidence", "is_recurring"},
      o \in [correlated : BOOLEAN, confidence : Confidences, is_recurring : BOOLEAN] }

\* the objects the model may answer the correlation prompt with when the
\* node is called on its own: each of correlated, confidence,
\* correlation_type and is_recurring present or omitted
AllCorrelationOutputs ==
    { [k \in K |->
          IF k = "confidence" THEN o.confidence
          ELSE IF k = "correlated" THEN o.correlated
          ELSE IF k = "correlation_type" THEN o.correlation_type
          ELSE o.is_recurring] :
      K \in SUBSET {"correlated", "confidence", "correlation_type", "is_recurring"},
      o \in [correlated : BOOLEAN, confidence : Confidences,
             correlation_type : {"recent_change"}, is_recurring : BOOLEAN] }

\* mutant: a confidence the model left out is stored as 0.5
analyze_correlation_mid(state, resp) ==
    IF ~PromptTicketOk(state) THEN Raised("KeyError")
    ELSE IF resp.kind = "raise" THEN Raised("ModelCallError")
    ELSE LET parsed == _parse_json_response(resp) IN
    IF parsed.raised THEN parsed
    ELSE LET result == parsed.update
             correlation_result ==
                 [correlated |-> DictGet(result, "correlated", FALSE),
                  confidence |-> DictGet(result, "confidence", 50000),
                  correlation_type |-> DictGet(result, "correlation_type", "none"),
                  matched_item |-> DictGet(result, "matched_item", NoItem),
                  reason |-> DictGet(result, "reason", "")]
             recurring_pattern ==
                 [is_recurring |-> DictGet(result, "is_recurring", FALSE),
                  related_tickets |-> DictGet(result, "related_tickets", <<>>),
                  pattern_summary |-> DictGet(result, "pattern_summary", NoneStr)]
         IN  Returned(Spread(state,
                 ("correlation_result" :> Some(correlation_result)) @@
                 ("recurring_pattern" :> Some(recurring_pattern))))

analyze_correlation(state, resp) ==
    IF ~PromptTicketOk(state) THEN Raised("KeyError")
    ELSE IF resp.kind = "raise" THEN Raised("ModelCallError")
    ELSE LET parsed == _parse_json_response(resp) IN
    IF parsed.raised THEN parsed
    ELSE LET result == parsed.update
             correlation_result ==
                 [correlated |-> DictGet(result, "correlated", FALSE),
                  confidence |-> DictGet(result, "confidence", 0),
                  correlation_type |-> DictGet(result, "correlation_type", "none"),
                  matched_item |-> DictGet(result, "matched_item", NoItem),
                  reason |-> DictGet(result, "reason", "")]
             recurring_pattern ==
                 [is_recurring |-> DictGet(result, "is_recurring", FALSE),
                  related_tickets |-> DictGet(result, "related_tickets", <<>>),
                  pattern_summary |-> DictGet(result, "pattern_summary", NoneStr)]
         IN  Returned(Spread(state,
                 ("correlation_result" :> Some(correlation_result)) @@
                 ("recurring_pattern" :> Some(recurring_pattern))))

HighConfidence == 70000
LowConfidence == 40000
MaxRetries == 2

\* mutant: the 0.7 threshold made exclusive
route_decision_strict(state) ==
    LET result == Get(state, "correlation_result", EmptyDict)
        recurring == Get(state, "recurring_pattern", EmptyDict)
        retry_count == Get(state, "retry_count", 0)
        confidence == DictGet(result, "confidence", 0)
        is_correlated == DictGet(result, "correlated", FALSE)
        is_recurring == DictGet(recurring, "is_recurring", FALSE)
    IN  IF (is_correlated /\ confidence > HighConfidence) \/ is_recurring
        THEN "correlated"
        ELSE IF confidence < LowConfidence /\ retry_count < MaxRetries
        THEN "low_confidence"
        ELSE "not_correlated"

\* mutant: the retry budget test admits retry_count = MaxRetries
route_decision_offbyone(state) ==
    LET result == Get(state, "correlation_result", EmptyDict)
        recurring == Get(state, "recurring_pattern", EmptyDict)
        retry_count == Get(state, "retry_count", 0)
        confidence == DictGet(result, "confidence", 0)
        is_correlated == DictGet(result, "correlated", FALSE)
        is_recurring == DictGet(recurring, "is_recurring", FALSE)
    IN  IF (is_correlated /\ confidence >= HighConfidence) \/ is_recurring
        THEN "correlated"
        ELSE IF confidence < LowConfidence /\ retry_count <= MaxRetries
        THEN "low_confidence"
        ELSE "not_correlated"

\* mutant: the retry budget is read off the window instead of retry_count
route_decision_window(state) ==
    LET result == Get(state, "correlation_result", EmptyDict)
        recurring == Get(state, "recurring_pattern", EmptyDict)
        days_back == Get(state, "days_back", 1)
        confidence == DictGet(result, "confidence", 0)
        is_correlated == DictGet(result, "correlated", FALSE)
        is_recurring == DictGet(recurring, "is_recurring", FALSE)
    IN  IF (is_correlated /\ confidence >= HighConfidence) \/ is_recurring
        THEN "correlated"
        ELSE IF confidence < LowConfidence /\ days_back < 7
        THEN "low_confidence"
        ELSE "not_correlated"

route_decision(state) ==
    LET result == Get(state, "correlation_result", EmptyDict)
        recurring == Get(state, "recurring_pattern", EmptyDict)
        retry_count == Get(state, "retry_count", 0)
        confidence == DictGet(result, "confidence", 0)
        is_correlated == DictGet(result, "correlated", FALSE)
        is_recurring == DictGet(recurring, "is_recurring", FALSE)
    IN  IF (is_correlated /\ confidence >= HighConfidence) \/ is_recurring
        THEN "correlated"
        ELSE IF confidence < LowConfidence /\ retry_count < MaxRetries
        THEN "low_confidence"
        ELSE "not_correlated"

\* mutant: a window outside the table is kept instead of set to 7
WidenTable_keep(current_days) ==
    IF current_days = 1 THEN 3 ELSE IF current_days = 3 THEN 7 ELSE current_days

\* {1: 3, 3: 7}.get(current_days, 7)
WidenTable(current_days) ==
    IF current_days = 1 THEN 3 ELSE IF current_days = 3 THEN 7 ELSE 7

\* mutant: the window is widened and the pull requests fetched so far are
\* dropped
widen_window_clearing(state) ==
    Spread(state, ("retry_count" :> Some(Get(state, "retry_count", 0) + 1)) @@
                  ("days_back" :> Some(WidenTable(Get(state, "days_back", 1)))) @@
                  ("recent_prs" :> Some(<<>>)))

\* mutant: the retry is counted but the window is left as it is
widen_window_samewindow(state) ==
    Spread(state, ("retry_count" :> Some(Get(state, "retry_count", 0) + 1)) @@
                  ("days_back" :> Some(Get(state, "days_back", 1))))

\* mutant: the window is widened but the retry is not counted
widen_window_uncounted(state) ==
    Spread(state, ("retry_count" :> Some(Get(state, "retry_count", 0))) @@
                  ("days_back" :> Some(WidenTable(Get(state, "days_back", 1)))))

widen_window(state) ==
    LET retry_count == Get(state, "retry_count", 0)
        current_days == Get(state, "days_back", 1)
        new_days == WidenTable(current_days)
    IN  Spread(state, ("retry_count" :> Some(retry_count + 1)) @@
                      ("days_back" :> Some(new_days)))

-----------------------------------------------------------------------------
(* src/src/nodes.py: generate_recommendation and verify *)

valid_actions == <<"escalate", "get_more_info", "reproduce">>

\* the objects the model may answer the recommendation prompt with:
\* next_action omitted, null, empty, valid or invalid
RecommendationOutputs ==
    { EmptyDict } \cup
    { [next_action |-> a] :
        a \in {"escalate", "", "ignore", NoneStr} }

\* the objects the model may answer the recommendation prompt with when
\* the node is called on its own
AllRecommendationOutputs ==
    { EmptyDict, [next_action_reason |-> "r"] } \cup
    { [next_action |-> a] :
        a \in {"escalate", "get_more_info", "reproduce", "", "ignore", NoneStr} }

\* mutant: a next_action the model left out is stored as the empty string
generate_recommendation_nodefault(state, resp) ==
    IF ~PromptTicketOk(state) THEN Raised("KeyError")
    ELSE IF resp.kind = "raise" THEN Raised("ModelCallError")
    ELSE LET parsed == _parse_json_response(resp) IN
    IF parsed.raised THEN parsed
    ELSE LET result == parsed.update
             recommendation ==
                 [suggested_tags |-> DictGet(result, "suggested_tags", <<>>),
                  correlation_summary |-> DictGet(result, "correlation_summary", ""),
                  next_action |-> DictGet(result, "next_action", ""),
                  next_action_reason |-> DictGet(result, "next_action_reason", ""),
                  questions_for_customer |->
                      DictGet(result, "questions_for_customer", NoneStr),
                  engineering_context |->
                      DictGet(result, "engineering_context", NoneStr)]
         IN  IF recommendation.next_action = NoneStr THEN Raised("AttributeError")
             ELSE Returned(Spread(state, ("recommendation" :> Some(recommendation))))

generate_recommendation(state, resp) ==
    IF ~PromptTicketOk(state) THEN Raised("KeyError")
    ELSE IF resp.kind = "raise" THEN Raised("ModelCallError")
    ELSE LET parsed == _parse_json_response(resp) IN
    IF parsed.raised THEN parsed
    ELSE LET result == parsed.update
             recommendation ==
                 [suggested_tags |-> DictGet(result, "suggested_tags", <<>>),
                  correlation_summary |-> DictGet(result, "correlation_summary", ""),
                  next_action |-> DictGet(result, "next_action", "reproduce"),
                  next_action_reason |-> DictGet(result, "next_action_reason", ""),
                  questions_for_customer |->
                      DictGet(result, "questions_for_customer", NoneStr),
                  engineering_context |->
                      DictGet(result, "engineering_context", NoneStr)]
         IN  \* recommendation['next_action'].upper() in the log call
             IF recommendation.next_action = NoneStr THEN Raised("AttributeError")
             ELSE Returned(Spread(state, ("recommendation" :> Some(recommendation))))

InvalidActionError(next_action) == "Invalid next action: " \o next_action

\* mutant: a missing next_action fails the run without an error message
verify_silent(state) ==
    LET recommendation == Get(state, "recommendation", EmptyDict)
        error == Get(state, "error", "")
        next_action == DictGet(recommendation, "next_action", "")
    IN  IF error # ""
        THEN Spread(state, ("verified" :> Some(FALSE)))
        ELSE IF next_action = "" \/ next_action = NoneStr
        THEN Spread(state, ("verified" :> Some(FALSE)))
        ELSE IF ~Contains(valid_actions, next_action)
        THEN Spread(state, ("verified" :> Some(FALSE)) @@
                           ("error" :> Some(InvalidActionError(next_action))))
        ELSE Spread(state, ("verified" :> Some(TRUE)))

\* mutant: the upstream error is not looked at
verify_unguarded(state) ==
    LET recommendation == Get(state, "recommendation", EmptyDict)
        next_action == DictGet(recommendation, "next_action", "")
    IN  IF next_action = "" \/ next_action = NoneStr
        THEN Spread(state, ("verified" :> Some(FALSE)) @@
                           ("error" :> Some("No next action generated")))
        ELSE IF ~Contains(valid_actions, next_action)
        THEN Spread(state, ("verified" :> Some(FALSE)) @@
                           ("error" :> Some(InvalidActionError(next_action))))
        ELSE Spread(state, ("verified" :> Some(TRUE)))

\* mutant: an action outside valid_actions is accepted
verify_lenient(state) ==
    LET recommendation == Get(state, "recommendation", EmptyDict)
        error == Get(state, "error", "")
        next_action == DictGet(recommendation, "next_action", "")
    IN  IF error # ""
        THEN Spread(state, ("verified" :> Some(FALSE)))
        ELSE IF next_action = "" \/ next_action = NoneStr
        THEN Spread(state, ("verified" :> Some(FALSE)) @@
                           ("error" :> Some("No next action generated")))
        ELSE Spread(state, ("verified" :> Some(TRUE)))

\* mutant: the next_action checks come first and replace an upstream error
verify_relabel(state) ==
    LET recommendation == Get(state, "recommendation", EmptyDict)
        error == Get(state, "error", "")
        next_action == DictGet(recommendation, "next_action", "")
    IN  IF next_action = "" \/ next_action = NoneStr
        THEN Spread(state, ("verified" :> Some(FALSE)) @@
                           ("error" :> Some("No next action generated")))
        ELSE IF ~Contains(valid_actions, next_action)
        THEN Spread(state, ("verified" :> Some(FALSE)) @@
                           ("error" :> Some(InvalidActionError(next_action))))
        ELSE IF error # ""
        THEN Spread(state, ("verified" :> Some(FALSE)))
        ELSE Spread(state, ("verified" :> Some(TRUE)))

\* mutant: a run in which all three sources failed is not verified
verify_degraded(state) ==
    LET recommendation == Get(state, "recommendation", EmptyDict)
        error == Get(state, "error", "")
        fetch_failures == Get(state, "fetch_failures", <<>>)
        next_action == DictGet(recommendation, "next_action", "")
    IN  IF error # ""
        THEN Spread(state, ("verified" :> Some(FALSE)))
        ELSE IF next_action = "" \/ next_action = NoneStr
        THEN Spread(state, ("verified" :> Some(FALSE)) @@
                           ("error" :> Some("No next action generated")))
        ELSE IF ~Contains(valid_actions, next_action)
        THEN Spread(state, ("verified" :> Some(FALSE)) @@
                           ("error" :> Some(InvalidActionError(next_action))))
        ELSE IF Len(fetch_failures) = 3
        THEN Spread(state, ("verified" :> Some(FALSE)) @@
                           ("error" :> Some("All data sources failed")))
        ELSE Spread(state, ("verified" :> Some(TRUE)))

verify(state) ==
    LET recommendation == Get(state, "recommendation", EmptyDict)
        error == Get(state, "error", "")
        next_action == DictGet(recommendation, "next_action", "")
    IN  IF error # ""
        THEN Spread(state, ("verified" :> Some(FALSE)))
        ELSE IF next_action = "" \/ next_action = NoneStr
        THEN Spread(state, ("verified" :> Some(FALSE)) @@
                           ("error" :> Some("No next action generated")))
        ELSE IF ~Contains(valid_actions, next_action)
        THEN Spread(state, ("verified" :> Some(FALSE)) @@
                           ("error" :> Some(InvalidActionError(next_action))))
        ELSE Spread(state, ("verified" :> Some(TRUE)))

\* _print_final_output(state), which verify calls before it returns
\* verified True: matched.get(...) on a matched_item that is not a dict
_print_final_output(state) ==
    LET correlation == Get(state, "correlation_result", EmptyDict)
        matched == DictGet(correlation, "matched_item", NoItem)
        truthy == \/ matched.kind = "str" /\ matched.text # <<>>
                  \/ matched.kind = "dict" /\ DOMAIN matched.dict # {}
    IN  IF DictGet(correlation, "correlated", FALSE) /\ truthy /\ matched.kind # "dict"
        THEN Raised("AttributeError")
        ELSE Returned(EmptyDict)

\* verify as the driver calls it: the update of verify, unless
\* _print_final_output raises on the way to verified True
verify_call(state) ==
    IF verify(state).verified = Some(TRUE) /\ _print_final_output(state).raised
    THEN _print_final_output(state)
    ELSE Returned(verify(state))

-----------------------------------------------------------------------------
(* src/src/graph.py and src/src/main.py: the graph driver.  A node runs,   *)
(* its update is applied through the reducers, and the edges choose the    *)
(* next superstep.  An exception raised by a node leaves app.invoke and    *)
(* run_triage: the run returns no final state (pc = "raised").             *)

NoUpdates == [f \in Fetchers |-> None]

Init ==
    /\ pc = "intake"
    /\ \E in \in RunInputs : st = InitialState(in.ticket, in.reference_date)
    /\ pending = {}
    /\ updates = NoUpdates
    /\ branch = NoneStr
    /\ llmCalls = 0
    /\ fetchCalls = 0
    /\ intakeError = None
    /\ round = 0
    /\ exc = "none"
    /\ allRaised = TRUE
    /\ arg = None
    /\ reply = None
    /\ ret = None

\* entry point "intake", then the edge intake -> classify_issue_type
Intake ==
    /\ pc = "intake"
    /\ st' = ApplyUpdate(st, intake(st))
    /\ intakeError' = intake(st).error
    /\ pc' = "classify_issue_type"
    /\ UNCHANGED <<pending, updates, branch, llmCalls, fetchCalls, round, exc, allRaised, arg, reply, ret>>

\* a node that calls the model: the call is made once the prompt is built
LlmNode(result, next) ==
    /\ llmCalls' = IF PromptTicketOk(st) THEN llmCalls + 1 ELSE llmCalls
    /\ IF result.raised
       THEN pc' = "raised" /\ exc' = result.exc /\ st' = st
       ELSE pc' = next /\ exc' = exc /\ st' = ApplyUpdate(st, result.update)
    /\ UNCHANGED <<allRaised, arg, reply, ret>>

\* classify_issue_type, then the fan-out edges to the three fetchers
Classify ==
    /\ pc = "classify_issue_type"
    /\ \E resp \in LlmResponses(ClassifyOutputs) :
           LlmNode(classify_issue_type(st, resp), "fetch")
    /\ pending' = IF pc' = "fetch" THEN Fetchers ELSE pending
    /\ UNCHANGED <<updates, branch, fetchCalls, intakeError, round>>

\* one fetcher of the superstep runs on the state the superstep started
\* with; the driver keeps what it returned until the superstep ends
FetchNode(source, outcome, result) ==
    /\ pc = "fetch"
    /\ source \in pending
    /\ pending' = pending \ {source}
    /\ updates' = [updates EXCEPT
                      ![source] = Some([call_raised |-> outcome.raised,
                                        args |-> CallArgs(st, source),
                                        update |-> result.update])]
    /\ fetchCalls' = fetchCalls + 1
    /\ allRaised' = (allRaised /\ outcome.raised)
    /\ UNCHANGED <<pc, st, branch, llmCalls, intakeError, round, exc, arg, reply, ret>>

FetchGithub ==
    \E outcome \in CallOutcomes("github", Get(st, "days_back", 1)) :
        FetchNode("github", outcome, fetch_github(st, outcome))

FetchLinear ==
    \E outcome \in CallOutcomes("linear", Get(st, "days_back", 1)) :
        FetchNode("linear", outcome, fetch_linear(st, outcome))

FetchIntercom ==
    \E outcome \in CallOutcomes("intercom", Get(st, "days_back", 1)) :
        FetchNode("intercom", outcome, fetch_intercom(st, outcome))

\* the updates of a superstep applied one after the other, in the order given
RECURSIVE ApplyAll(_, _, _)
ApplyAll(state, ups, order) ==
    IF order = <<>> THEN state
    ELSE ApplyAll(ApplyUpdate(state, ups[Head(order)][1].update), ups, Tail(order))

Orders == {o \in [1..3 -> Fetchers] : {o[i] : i \in 1..3} = Fetchers}

\* mutant: analyze_correlation is triggered as soon as two fetchers are done
FetchJoin_race ==
    /\ pc = "fetch"
    /\ Cardinality(pending) <= 1
    /\ LET done == Fetchers \ pending
       IN  \E order \in {o \in [1..Cardinality(done) -> done] :
                            {o[i] : i \in DOMAIN o} = done} :
               st' = ApplyAll(st, updates, order)
    /\ updates' = NoUpdates
    /\ pending' = {}
    /\ round' = round + 1
    /\ pc' = "analyze_correlation"
    /\ UNCHANGED <<branch, llmCalls, fetchCalls, intakeError, exc, allRaised, arg, reply, ret>>

\* the end of the fetch superstep: the three updates are merged into the
\* channels, then the fan-in edges trigger analyze_correlation
FetchJoin ==
    /\ pc = "fetch"
    /\ pending = {}
    /\ \E order \in Orders : st' = ApplyAll(st, updates, order)
    /\ updates' = NoUpdates
    /\ round' = round + 1
    /\ pc' = "analyze_correlation"
    /\ UNCHANGED <<pending, branch, llmCalls, fetchCalls, intakeError, exc, allRaised, arg, reply, ret>>

\* analyze_correlation, whose conditional edges are decided by Route
AnalyzeCorrelation ==
    /\ pc = "analyze_correlation"
    /\ \E resp \in LlmResponses(CorrelationOutputs) :
           LlmNode(analyze_correlation(st, resp), "route")
    /\ UNCHANGED <<pending, updates, branch, fetchCalls, intakeError, round>>

\* mutant: the low_confidence branch is mapped to generate_recommendation
Target_norepeat(b) == "generate_recommendation"

\* add_conditional_edges("analyze_correlation", route_decision, {...})
Target(b) == IF b = "low_confidence" THEN "widen_window" ELSE "generate_recommendation"

Route ==
    /\ pc = "route"
    /\ branch' = route_decision(st)
    /\ pc' = Target(branch')
    /\ UNCHANGED <<st, pending, updates, llmCalls, fetchCalls, intakeError, round, exc, allRaised, arg, reply, ret>>

\* widen_window, then the fan-out edges back to the three fetchers
WidenWindow ==
    /\ pc = "widen_window"
    /\ st' = ApplyUpdate(st, widen_window(st))
    /\ pc' = "fetch"
    /\ pending' = Fetchers
    /\ UNCHANGED <<updates, branch, llmCalls, fetchCalls, intakeError, round, exc, allRaised, arg, reply, ret>>

GenerateRecommendation ==
    /\ pc = "generate_recommendation"
    /\ \E resp \in LlmResponses(RecommendationOutputs) :
           LlmNode(generate_recommendation(st, resp), "verify")
    /\ UNCHANGED <<pending, updates, branch, fetchCalls, intakeError, round>>

\* verify, then the edge verify -> END: app.invoke returns the final state
Verify ==
    /\ pc = "verify"
    /\ LET result == verify_call(st)
       IN  IF result.raised
           THEN pc' = "raised" /\ exc' = result.exc /\ st' = st
           ELSE pc' = "END" /\ exc' = exc /\ st' = ApplyUpdate(st, result.update)
    /\ UNCHANGED <<pending, updates, branch, llmCalls, fetchCalls, intakeError, round, allRaised, arg, reply, ret>>

Next ==
    \/ Intake
    \/ Classify
    \/ FetchGithub
    \/ FetchLinear
    \/ FetchIntercom
    \/ FetchJoin
    \/ AnalyzeCorrelation
    \/ Route
    \/ WidenWindow
    \/ GenerateRecommendation
    \/ Verify

Spec == Init /\ [][Next]_vars

\* a node the driver has started runs to its end, and the driver then
\* starts the next superstep: no call hangs
FairSpec == Spec /\ WF_vars(Next)

-----------------------------------------------------------------------------
(* The node functions called on their own, on states drawn from a bounded  *)
(* set: route_decision and widen_window on any retry_count and days_back,  *)
(* not only those a run of the graph reaches.                              *)

\* the largest retry_count a state handed to a node function holds
MaxRetryIn == 3

\* windows: the entries of the table, 7, and two values outside it
PureDays == {1, 3, 7, 5, 14}

\* the fields route_decision and widen_window do not own, empty or filled
OtherFields ==
    { [issue_type |-> None, recent_prs |-> None, fetch_failures |-> None],
      [issue_type |-> Some("frontend"),
       recent_prs |-> Some(Records("github", 1, MaxItems)),
       fetch_failures |-> Some(<<"github">>)] }

PureState(c) ==
    [k \in Fields |->
        IF k = "ticket" THEN Some([subject |-> "s", body |-> "b"])
        ELSE IF k = "correlation_result"
             THEN Some([correlated |-> c.correlated, confidence |-> c.confidence,
                        correlation_type |-> "none", matched_item |-> NoItem,
                        reason |-> ""])
        ELSE IF k = "recurring_pattern"
             THEN Some([is_recurring |-> c.is_recurring, related_tickets |-> <<>>,
                        pattern_summary |-> NoneStr])
        ELSE IF k = "retry_count" THEN Some(c.retry_count)
        ELSE IF k = "days_back" THEN Some(c.days_back)
        ELSE IF k \in DOMAIN c.other THEN c.other[k]
        ELSE None]

PureStates ==
    { PureState(c) :
        c \in [correlated : BOOLEAN, confidence : AllConfidences,
               is_recurring : BOOLEAN, retry_count : 0..MaxRetryIn,
               days_back : PureDays, other : OtherFields] }

\* a node that calls the model, called on its own with the answer resp
CallLlmNode(resp, result, done) ==
    /\ pc = "call"
    /\ arg' = Some(st)
    /\ reply' = Some(resp)
    /\ IF result.raised
       THEN pc' = "raised" /\ exc' = result.exc /\ st' = st
       ELSE pc' = done /\ exc' = exc /\ st' = ApplyUpdate(st, result.update)
    /\ UNCHANGED <<pending, updates, branch, llmCalls, fetchCalls, intakeError,
                   round, allRaised, ret>>

InitPure ==
    /\ pc = "call"
    /\ st \in PureStates
    /\ pending = {}
    /\ updates = NoUpdates
    /\ branch = NoneStr
    /\ llmCalls = 0
    /\ fetchCalls = 0
    /\ intakeError = None
    /\ round = 0
    /\ exc = "none"
    /\ allRaised = TRUE
    /\ arg = None
    /\ reply = None
    /\ ret = None

\* route_decision(state): the branch is returned, the state is only read
CallRoute ==
    /\ pc = "call"
    /\ arg' = Some(st)
    /\ branch' = route_decision(st)
    /\ pc' = "routed"
    /\ UNCHANGED <<st, pending, updates, llmCalls, fetchCalls, intakeError, round, exc, allRaised, reply, ret>>

\* widen_window(state), its update applied through the reducers
CallWiden ==
    /\ pc = "call"
    /\ arg' = Some(st)
    /\ st' = ApplyUpdate(st, widen_window(st))
    /\ pc' = "widened"
    /\ UNCHANGED <<pending, updates, branch, llmCalls, fetchCalls, intakeError,
                   round, exc, allRaised, reply, ret>>

\* analyze_correlation(state), its update applied through the reducers
CallCorrelate ==
    \E resp \in LlmResponses(AllCorrelationOutputs) :
        CallLlmNode(resp, analyze_correlation(st, resp), "analyzed")

NextPure ==
    \/ CallRoute
    \/ CallWiden
    \/ CallCorrelate

PureSpec == InitPure /\ [][NextPure]_vars

-----------------------------------------------------------------------------
(* intake and verify called on their own, on states drawn from a bounded   *)
(* set: any combination of ticket, upstream error, recommendation,         *)
(* fetch_failures and earlier verified value, not only those a run of the  *)
(* graph reaches.                                                          *)

NodeTickets == { EmptyDict, [subject |-> "s", body |-> ""], [subject |-> "s", body |-> "b"] }

\* error: not set, the empty string, a message
NodeErrors == { None, Some(""), Some("upstream failure") }

\* recommendation: not set, {}, or a dict whose next_action is valid,
\* invalid, empty or null
NodeRecommendations ==
    { None, Some(EmptyDict) } \cup
    { Some([next_action |-> a]) :
        a \in {"escalate", "get_more_info", "reproduce", "ignore", "", NoneStr} }

\* fetch_failures: not set, empty, partial, all three sources
NodeFailures ==
    { None, Some(<<>>), Some(<<"linear">>), Some(<<"github", "linear", "intercom">>) }

NodeState(c) ==
    [k \in Fields |->
        IF k = "ticket" THEN Some(c.ticket)
        ELSE IF k \in {"error", "recommendation", "fetch_failures", "verified"}
             THEN c[k]
        ELSE None]

NodeStates ==
    { NodeState(c) :
        c \in [ticket : NodeTickets, error : NodeErrors,
               recommendation : NodeRecommendations,
               fetch_failures : NodeFailures,
               verified : {None, Some(TRUE)}] }

InitNode ==
    /\ pc = "call"
    /\ st \in NodeStates
    /\ pending = {}
    /\ updates = NoUpdates
    /\ branch = NoneStr
    /\ llmCalls = 0
    /\ fetchCalls = 0
    /\ intakeError = None
    /\ round = 0
    /\ exc = "none"
    /\ allRaised = TRUE
    /\ arg = None
    /\ reply = None
    /\ ret = None

\* intake(state), its update applied through the reducers
CallIntake ==
    /\ pc = "call"
    /\ arg' = Some(st)
    /\ st' = ApplyUpdate(st, intake(st))
    /\ pc' = "intake_done"
    /\ UNCHANGED <<pending, updates, branch, llmCalls, fetchCalls, intakeError,
                   round, exc, allRaised, reply, ret>>

\* verify(state), its update applied through the reducers
CallVerify ==
    /\ pc = "call"
    /\ arg' = Some(st)
    /\ LET result == verify_call(st)
       IN  IF result.raised
           THEN pc' = "raised" /\ exc' = result.exc /\ st' = st
           ELSE pc' = "verified" /\ exc' = exc /\ st' = ApplyUpdate(st, result.update)
    /\ UNCHANGED <<pending, updates, branch, llmCalls, fetchCalls, intakeError,
                   round, allRaised, reply, ret>>

\* classify_issue_type(state), its update applied through the reducers
CallClassify ==
    \E resp \in LlmResponses(AllClassifyOutputs) :
        CallLlmNode(resp, classify_issue_type(st, resp), "classified")

\* generate_recommendation(state), its update applied through the reducers
CallRecommend ==
    \E resp \in LlmResponses(AllRecommendationOutputs) :
        CallLlmNode(resp, generate_recommendation(st, resp), "recommended")

NextNode ==
    \/ CallIntake
    \/ CallVerify
    \/ CallClassify
    \/ CallRecommend

NodeSpec == InitNode /\ [][NextNode]_vars

-----------------------------------------------------------------------------
(* src/evals/evaluator.py: the hallucination check of the evaluator, and   *)
(* verify, called on final states whose correlation names a matched_item.  *)
(* A title, subject or id is a sequence of one-character strings.          *)

\* str.lower()
lower(s) == [i \in 1..Len(s) |-> IF s[i] = "F" THEN "f" ELSE s[i]]

\* a in b on two strings
In(a, b) == \E i \in 0..(Len(b) - Len(a)) : SubSeq(b, i + 1, i + Len(a)) = a

\* TriageEvaluator._check_no_hallucination(state)
_check_no_hallucination(state) ==
    LET correlation == Get(state, "correlation_result", EmptyDict)
        matched_item == DictGet(correlation, "matched_item", NoItem)
        matched_title == IF matched_item.kind = "dict"
                         THEN DictGet(matched_item.dict, "title", <<>>)
                         ELSE matched_item.text
        matched_id == IF matched_item.kind = "dict"
                      THEN DictGet(matched_item.dict, "id", <<>>)
                      ELSE <<>>
        Either(title) == \/ In(lower(matched_title), lower(title))
                         \/ In(lower(title), lower(matched_title))
        prs == Get(state, "recent_prs", <<>>)
        linear == Get(state, "recent_linear_tickets", <<>>)
        intercom == Get(state, "recent_intercom_tickets", <<>>)
    IN  IF ~DictGet(correlation, "correlated", FALSE) THEN TRUE
        ELSE IF matched_item.kind = "null" THEN TRUE
        ELSE \/ \E i \in 1..Len(prs) :
                   \/ Either(DictGet(prs[i], "title", <<>>))
                   \/ matched_id # <<>> /\ In(matched_id, DictGet(prs[i], "title", <<>>))
             \/ \E i \in 1..Len(linear) :
                   \/ Either(DictGet(linear[i], "title", <<>>))
                   \/ matched_id # <<>> /\ In(matched_id, DictGet(linear[i], "identifier", <<>>))
             \/ \E i \in 1..Len(intercom) :
                   Either(DictGet(intercom[i], "subject", <<>>))

\* titles and ids: empty, equal up to case, one inside the other, unrelated
EvalTitles == { <<>>, <<"f">>, <<"F">>, <<"f", "x">>, <<"x">> }
EvalIds == { <<>>, <<"F">> }

\* matched_item: null, a string, or a dict with or without title and id
EvalItems ==
    { NoItem } \cup { ItemStr(t) : t \in EvalTitles } \cup
    { ItemDict(EmptyDict) } \cup
    { ItemDict([title |-> t]) : t \in EvalTitles } \cup
    { ItemDict([id |-> i]) : i \in EvalIds } \cup
    { ItemDict([title |-> t, id |-> i]) : t \in EvalTitles, i \in EvalIds }

\* the fetched lists: empty, or one entry, with or without its title
EvalPrs == { <<>>, <<EmptyDict>> } \cup { <<[title |-> t]>> : t \in {<<"f">>, <<"F", "x">>, <<"x">>} }
EvalLinear ==
    { <<>>, <<EmptyDict>>, <<[title |-> <<"x">>, identifier |-> <<"F">>]>>,
      <<[title |-> <<"f">>, identifier |-> <<"x">>]>> }
EvalIntercom == { <<>>, <<EmptyDict>>, <<[subject |-> <<"f">>]>>, <<[subject |-> <<"x">>]>> }

EvalState(c) ==
    [k \in Fields |->
        IF k = "ticket" THEN Some([subject |-> "s", body |-> "b"])
        ELSE IF k = "error" THEN c.error
        ELSE IF k = "recommendation" THEN Some([next_action |-> c.next_action])
        ELSE IF k = "correlation_result"
             THEN Some([correlated |-> c.correlated, confidence |-> 90000,
                        correlation_type |-> "recent_change",
                        matched_item |-> c.matched_item, is_recurring |-> FALSE])
        ELSE IF k = "recent_prs" THEN Some(c.prs)
        ELSE IF k = "recent_linear_tickets" THEN Some(c.linear)
        ELSE IF k = "recent_intercom_tickets" THEN Some(c.intercom)
        ELSE None]

EvalStates ==
    { EvalState(c) :
        c \in [error : {None, Some("upstream failure")},
               next_action : {"escalate", "ignore"},
               correlated : BOOLEAN, matched_item : EvalItems,
               prs : EvalPrs, linear : EvalLinear, intercom : EvalIntercom] }

InitEval ==
    /\ pc = "call"
    /\ st \in EvalStates
    /\ pending = {}
    /\ updates = NoUpdates
    /\ branch = NoneStr
    /\ llmCalls = 0
    /\ fetchCalls = 0
    /\ intakeError = None
    /\ round = 0
    /\ exc = "none"
    /\ allRaised = TRUE
    /\ arg = None
    /\ reply = None
    /\ ret = None

\* self._check_no_hallucination(final_state) in run_single
CallHallucination ==
    /\ pc = "call"
    /\ arg' = Some(st)
    /\ ret' = Some(_check_no_hallucination(st))
    /\ pc' = "checked"
    /\ UNCHANGED <<st, pending, updates, branch, llmCalls, fetchCalls, intakeError,
                   round, exc, allRaised, reply>>

NextEval ==
    \/ CallVerify
    \/ CallHallucination

EvalSpec == InitEval /\ [][NextEval]_vars

-----------------------------------------------------------------------------

(* src/src/nodes.py: _parse_json_response on the text of a response. A    *)
(* text is a sequence of characters, each a one-character string, except   *)
(* that a run of three backticks is the single element Fence.              *)

Quote == "\""
Fence == "fence"
Whitespace == {" ", "\n"}
Letters == {"j", "s", "o", "n", "k", "x"}
WordChars == Letters \cup {"1"}
JsonTag == <<"j", "s", "o", "n">>

\* the indices of text, from i on, up to the last one before the next
\* element outside the class: the run a greedy class* matches at i
RunEnd(text, i, class) ==
    IF \E j \in i..Len(text) : text[j] \notin class
    THEN (CHOOSE j \in i..Len(text) :
              text[j] \notin class /\ \A h \in i..(j - 1) : text[h] \in class) - 1
    ELSE Len(text)

\* step 1, the re.search for a fenced block, its group lazy: the text
\* between the first fence, its tag and whitespace, and the next fence,
\* without the whitespace before that fence; the text itself when it holds
\* no pair of fences
FenceBody(text) ==
    LET fences == { i \in 1..Len(text) : text[i] = Fence }
    IN  IF Cardinality(fences) < 2 THEN text
        ELSE LET open == CHOOSE i \in fences : \A j \in fences : i <= j
                 close == CHOOSE i \in fences \ {open} : \A j \in fences \ {open} : i <= j
                 tagged == /\ open + Len(JsonTag) <= Len(text)
                           /\ SubSeq(text, open + 1, open + Len(JsonTag)) = JsonTag
                 from == RunEnd(text, IF tagged THEN open + Len(JsonTag) + 1 ELSE open + 1,
                                Whitespace) + 1
                 to == CHOOSE e \in (from - 1)..(close - 1) :
                           /\ \A h \in (e + 1)..(close - 1) : text[h] \in Whitespace
                           /\ e >= from => text[e] \notin Whitespace
               IN  SubSeq(text, from, to)

\* step 2, the greedy re.search for an object: from the first { to the last }
ObjectSpan(text) ==
    LET opens == { i \in 1..Len(text) : text[i] = "{" }
        first == CHOOSE i \in opens : \A j \in opens : i <= j
        closes == { i \in 1..Len(text) : text[i] = "}" /\ i > first }
        last == CHOOSE i \in closes : \A j \in closes : i >= j
    IN  IF opens = {} \/ closes = {} THEN Raised("JSONDecodeError")
        ELSE Returned(SubSeq(text, first, last))

\* the elements of text at the indices in keep, in order
RECURSIVE Filter(_, _, _)
Filter(text, keep, i) ==
    IF i > Len(text) THEN <<>>
    ELSE (IF i \in keep THEN <<text[i]>> ELSE <<>>) \o Filter(text, keep, i + 1)

\* step 3, the re.sub on trailing commas: every comma that only whitespace
\* separates from a } or ] goes
DropTrailingCommas(text) ==
    LET trailing(i) ==
            /\ text[i] = ","
            /\ LET e == RunEnd(text, i + 1, Whitespace) + 1
               IN  e <= Len(text) /\ text[e] \in {"}", "]"}
    IN  Filter(text, { i \in 1..Len(text) : ~trailing(i) }, 1)

\* a match of the pattern of step 4 that starts at i (a quoted word, a
\* colon, whitespace, a letter, characters other than a quote, a quote, a
\* comma): the index of its letter and of its last element, or <<>>
UnquotedAt(text, i) ==
    LET key == RunEnd(text, i + 1, WordChars)
        space == RunEnd(text, key + 3, Whitespace)
        value == RunEnd(text, space + 1, { text[h] : h \in 1..Len(text) } \ {Quote})
    IN  IF /\ text[i] = Quote
           /\ key >= i + 1
           /\ key + 2 <= Len(text) /\ text[key + 1] = Quote /\ text[key + 2] = ":"
           /\ space >= key + 3
           /\ value >= space + 2 /\ text[space + 1] \in Letters
           /\ value + 2 <= Len(text) /\ text[value + 1] = Quote /\ text[value + 2] = ","
        THEN <<space + 1, value + 2>>
        ELSE <<>>

\* step 4, the re.sub that repairs a value without its opening quote: each
\* match becomes the key, a colon, a space and the value in quotes
RECURSIVE QuoteValues(_, _)
QuoteValues(text, from) ==
    LET starts == { i \in from..Len(text) : UnquotedAt(text, i) # <<>> }
    IN  IF starts = {} THEN SubSeq(text, from, Len(text))
        ELSE LET i == CHOOSE h \in starts : \A j \in starts : h <= j
                 m == UnquotedAt(text, i)
                 key == RunEnd(text, i + 1, WordChars)
             IN  SubSeq(text, from, key + 2) \o <<" ", Quote>> \o SubSeq(text, m[1], m[2])
                     \o QuoteValues(text, m[2] + 1)

\* the well-formed objects: one or two keys, each value a string, a number
\* or an empty object; a string holds letters, commas, braces and fences
MaxLen == 2
StringChars == {"x", ",", "}", Fence}
RECURSIVE StringsOf(_)
StringsOf(n) ==
    IF n = 0 THEN { <<>> }
    ELSE StringsOf(n - 1) \cup
         { Append(s, c) : s \in { t \in StringsOf(n - 1) : Len(t) = n - 1 }, c \in StringChars }
JsonValues ==
    { [kind |-> "str", text |-> s] : s \in StringsOf(MaxLen) } \cup
    { [kind |-> "num", text |-> <<>>], [kind |-> "obj", text |-> <<>>] }
JsonObjects ==
    { <<[key |-> "k", value |-> v]>> : v \in JsonValues } \cup
    { <<[key |-> "k", value |-> v], [key |-> "j", value |-> w]>> : v, w \in JsonValues }

\* the text of a value, of a pair, of the pairs of an object
ValueText(v) ==
    IF v.kind = "str" THEN <<Quote>> \o v.text \o <<Quote>>
    ELSE IF v.kind = "num" THEN <<"1">>
    ELSE <<"{", "}">>
PairText(p) == <<Quote, p.key, Quote, ":", " ">> \o ValueText(p.value)
PairsText(obj) ==
    IF Len(obj) = 1 THEN PairText(obj[1])
    ELSE PairText(obj[1]) \o <<",", " ">> \o PairText(obj[2])

\* the text of an object on one line or with its pairs on a line of their
\* own, with or without a comma before the closing brace
Layouts == {"inline", "lines"}
ObjectText(obj, layout, comma) ==
    LET gap == IF layout = "lines" THEN <<"\n">> ELSE <<>>
    IN  <<"{">> \o gap \o PairsText(obj) \o (IF comma THEN <<",">> ELSE <<>>) \o gap \o <<"}">>

\* the same text in a fenced block, tagged json or not
FencedText(obj, layout, tagged) ==
    <<Fence>> \o (IF tagged THEN JsonTag ELSE <<>>) \o <<"\n">>
        \o ObjectText(obj, layout, TRUE) \o <<"\n", Fence>>

\* the value that starts at t[i] and the index after it, or <<>>: a string
\* up to its closing quote, a number, an empty object
ValueAt(t, i) ==
    IF i > Len(t) THEN <<>>
    ELSE IF t[i] = Quote
    THEN IF \E q \in (i + 1)..Len(t) : t[q] = Quote
         THEN LET q == RunEnd(t, i + 1, { t[h] : h \in 1..Len(t) } \ {Quote}) + 1
              IN  <<[kind |-> "str", text |-> SubSeq(t, i + 1, q - 1)], q + 1>>
         ELSE <<>>
    ELSE IF t[i] = "1" THEN <<[kind |-> "num", text |-> <<>>], i + 1>>
    ELSE IF i + 1 <= Len(t) /\ t[i] = "{" /\ t[i + 1] = "}"
    THEN <<[kind |-> "obj", text |-> <<>>], i + 2>>
    ELSE <<>>

\* the pairs that start at t[i] and run to the closing brace that ends t
RECURSIVE PairsAt(_, _)
PairsAt(t, i) ==
    IF ~(/\ i + 3 <= Len(t)
         /\ t[i] = Quote /\ t[i + 1] \in WordChars /\ t[i + 2] = Quote /\ t[i + 3] = ":")
    THEN [ok |-> FALSE, pairs |-> <<>>]
    ELSE LET v == ValueAt(t, i + 4)
         IN  IF v = <<>> \/ v[2] > Len(t) THEN [ok |-> FALSE, pairs |-> <<>>]
             ELSE IF t[v[2]] = "}"
             THEN [ok |-> v[2] = Len(t), pairs |-> <<[key |-> t[i + 1], value |-> v[1]]>>]
             ELSE IF t[v[2]] = ","
             THEN LET rest == PairsAt(t, v[2] + 1)
                  IN  [ok |-> rest.ok, pairs |-> <<[key |-> t[i + 1], value |-> v[1]]>> \o rest.pairs]
             ELSE [ok |-> FALSE, pairs |-> <<>>]

\* step 5, json.loads(json_str): the object whose text this is, whatever
\* the whitespace between its elements; JSONDecodeError for any other text
json_loads(text) ==
    LET t == Filter(text, { i \in 1..Len(text) : text[i] \notin Whitespace }, 1)
        parsed == PairsAt(t, 2)
    IN  IF t = <<"{", "}">> THEN Returned(<<>>)
        ELSE IF Len(t) > 0 /\ t[1] = "{" /\ parsed.ok THEN Returned(parsed.pairs)
        ELSE Raised("JSONDecodeError")

\* _parse_json_response(text)
_parse_json_text(text) ==
    LET span == ObjectSpan(IF \E i \in 1..Len(text) : text[i] = Fence
                           THEN FenceBody(text) ELSE text)
    IN  IF span.raised THEN span
        ELSE json_loads(QuoteValues(DropTrailingCommas(span.update), 1))

ParseInputs == [obj : JsonObjects, layout : Layouts, tagged : BOOLEAN]

InitParse ==
    /\ pc = "call"
    /\ st = [k \in Fields |-> None]
    /\ pending = {}
    /\ updates = NoUpdates
    /\ branch = NoneStr
    /\ llmCalls = 0
    /\ fetchCalls = 0
    /\ intakeError = None
    /\ round = 0
    /\ exc = "none"
    /\ allRaised = TRUE
    /\ arg \in { Some(in) : in \in ParseInputs }
    /\ reply = None
    /\ ret = None

\* _parse_json_response on a text: the object, or the exception
CallParse(text, done) ==
    /\ pc = "call"
    /\ reply' = Some(text)
    /\ ret' = Some(_parse_json_text(text))
    /\ pc' = done
    /\ UNCHANGED <<st, pending, updates, branch, llmCalls, fetchCalls, intakeError,
                   round, exc, allRaised, arg>>

\* the response holds the object in a fenced block, a comma before its }
ParseFenced == CallParse(FencedText(arg[1].obj, arg[1].layout, arg[1].tagged), "parsed_fenced")

\* the response is the text of the object
ParsePlain == CallParse(ObjectText(arg[1].obj, arg[1].layout, FALSE), "parsed_plain")

NextParse ==
    \/ ParseFenced
    \/ ParsePlain

ParseSpec == InitParse /\ [][NextParse]_vars

-----------------------------------------------------------------------------

(* src/src/tools/github.py: fetch_github_prs, called on its own and by     *)
(* fetch_github. A date is a day number; the environment holds the token   *)
(* and, for each repository, what the GitHub API answers.                  *)

\* the day datetime.now() gives
Today == 28

\* datetime.fromisoformat(reference_date.replace("Z", "+00:00")): the day
\* of an ISO date, ValueError for any other string
fromisoformat(date_string) ==
    IF date_string \in {"2026-01-26", "2026-01-26T00:00:00Z"} THEN Returned(26)
    ELSE Raised("ValueError")

\* the closed pull requests the API lists: merged on the reference day, the
\* day before, a week before; closed without a merge; merged, but the call
\* for its files fails
Pulls ==
    { [title |-> "p26", merged |-> TRUE, merged_at |-> Some(26), files_raise |-> FALSE],
      [title |-> "p25", merged |-> TRUE, merged_at |-> Some(25), files_raise |-> FALSE],
      [title |-> "p20", merged |-> TRUE, merged_at |-> Some(20), files_raise |-> FALSE],
      [title |-> "closed", merged |-> FALSE, merged_at |-> None, files_raise |-> FALSE],
      [title |-> "nofiles", merged |-> TRUE, merged_at |-> Some(26), files_raise |-> TRUE] }

\* the longest list of pull requests of a repository, the longest list of
\* repositories asked for
MaxPulls == 2
MaxRepos == 2

RECURSIVE SeqsUpTo(_, _)
SeqsUpTo(S, n) ==
    IF n = 0 THEN { <<>> }
    ELSE SeqsUpTo(S, n - 1) \cup
         { Append(s, x) : s \in { t \in SeqsUpTo(S, n - 1) : Len(t) = n - 1 }, x \in S }

\* repo.get_pulls(state="closed", base="main", ...) for each repository, in
\* the order the API lists them; g.get_repo raises for a repository that
\* does not exist
Repos == {"acme/web", "acme/api", "acme/gone"}
GithubApis ==
    { [web |-> w, api |-> a] :
        w \in SeqsUpTo(Pulls, MaxPulls),
        a \in { <<CHOOSE p \in Pulls : p.title = "p26">>,
                <<CHOOSE p \in Pulls : p.title = "nofiles", CHOOSE p \in Pulls : p.title = "p25">> } }
RepoExists(repo_name) == repo_name # "acme/gone"
RepoPulls(api, repo_name) == IF repo_name = "acme/web" THEN api.web ELSE api.api

\* mutant: the loop does not compare merged_at with since
RECURSIVE PullLoop_nowindow(_, _, _, _)
PullLoop_nowindow(pulls, i, since, repo_name) ==
    IF i > Len(pulls) THEN <<>>
    ELSE LET pr == pulls[i]
         IN  IF ~pr.merged \/ pr.merged_at = None
             THEN PullLoop_nowindow(pulls, i + 1, since, repo_name)
             ELSE IF pr.files_raise THEN <<>>
             ELSE <<[title |-> pr.title, merged_at |-> pr.merged_at[1], repo |-> repo_name]>>
                      \o PullLoop_nowindow(pulls, i + 1, since, repo_name)

\* the loop over the pull requests of one repository, from the i-th on: the
\* records it appends before it ends, breaks or raises
RECURSIVE PullLoop(_, _, _, _)
PullLoop(pulls, i, since, repo_name) ==
    IF i > Len(pulls) THEN <<>>
    ELSE LET pr == pulls[i]
         IN  IF ~pr.merged \/ pr.merged_at = None
             THEN PullLoop(pulls, i + 1, since, repo_name)
             ELSE IF pr.merged_at[1] < since THEN <<>>
             ELSE IF pr.files_raise THEN <<>>
             ELSE <<[title |-> pr.title, merged_at |-> pr.merged_at[1], repo |-> repo_name]>>
                      \o PullLoop(pulls, i + 1, since, repo_name)

\* the body of the loop over repos, with its try / except
RECURSIVE RepoLoop(_, _, _)
RepoLoop(api, repos, since) ==
    IF repos = <<>> THEN <<>>
    ELSE (IF RepoExists(Head(repos))
          THEN PullLoop(RepoPulls(api, Head(repos)), 1, since, Head(repos))
          ELSE <<>>)
         \o RepoLoop(api, Tail(repos), since)

\* fetch_github_prs(repos, days_back, reference_date) in an environment
fetch_github_prs(env, repos, days_back, reference_date) ==
    IF env.token \in {NoneStr, ""} THEN Raised("ValueError")
    ELSE LET base_date == IF reference_date \notin {NoneStr, ""}
                          THEN fromisoformat(reference_date)
                          ELSE Returned(Today)
         IN  IF base_date.raised THEN base_date
             ELSE Returned(RepoLoop(env.api, repos, base_date.update - days_back))

\* the environment and the arguments of a call
GithubInputs ==
    [token : {NoneStr, "", "ghp_x"}, api : GithubApis,
     repos : SeqsUpTo(Repos, MaxRepos), days_back : {1, 7},
     reference_date : {NoneStr, "2026-01-26", "2026-01-26T00:00:00Z", "yesterday"}]

\* the state fetch_github reads these arguments from
GithubState(in) ==
    [k \in Fields |->
        IF k = "ticket" THEN Some([subject |-> "s", body |-> "b"])
        ELSE IF k = "target_repos" THEN Some(in.repos)
        ELSE IF k = "days_back" THEN Some(in.days_back)
        ELSE IF k = "reference_date" /\ in.reference_date # NoneStr
             THEN Some(in.reference_date)
        ELSE IF k = "fetch_failures" THEN Some(<<>>)
        ELSE None]

InitGithub ==
    /\ pc = "call"
    /\ \E in \in GithubInputs : arg = Some(in) /\ st = GithubState(in)
    /\ pending = {}
    /\ updates = NoUpdates
    /\ branch = NoneStr
    /\ llmCalls = 0
    /\ fetchCalls = 0
    /\ intakeError = None
    /\ round = 0
    /\ exc = "none"
    /\ allRaised = TRUE
    /\ reply = None
    /\ ret = None

\* fetch_github_prs called on its own, as the tests call it
CallGithubPrs ==
    /\ pc = "call"
    /\ ret' = Some(fetch_github_prs(arg[1], arg[1].repos, arg[1].days_back,
                                    arg[1].reference_date))
    /\ pc' = "prs_done"
    /\ UNCHANGED <<st, pending, updates, branch, llmCalls, fetchCalls, intakeError,
                   round, exc, allRaised, arg, reply>>

\* fetch_github(state) in the same environment, its update applied through
\* the reducers
CallFetchGithub ==
    /\ pc = "call"
    /\ LET result == fetch_github_prs(arg[1], Get(st, "target_repos", <<>>),
                                      Get(st, "days_back", 1),
                                      Get(st, "reference_date", NoneStr))
           outcome == IF result.raised THEN CallRaise ELSE CallReturn(result.update)
       IN  /\ ret' = Some(result)
           /\ st' = ApplyUpdate(st, fetch_github(st, outcome).update)
    /\ fetchCalls' = fetchCalls + 1
    /\ pc' = "fetched"
    /\ UNCHANGED <<pending, updates, branch, llmCalls, intakeError, round, exc,
                   allRaised, arg, reply>>

NextGithub ==
    \/ CallGithubPrs
    \/ CallFetchGithub

GithubSpec == InitGithub /\ [][NextGithub]_vars

-----------------------------------------------------------------------------

(* src/evals/evaluator.py: run_all over the cases of the golden set. A     *)
(* case is the dict the YAML file gives, which may lack a key; what the    *)
(* run of the graph and the checks give for it is part of the input.       *)

\* a case with all its keys; outcome is what running it gives: run_triage_fn
\* raises, every check passes, a check fails, the case configures no check
CaseKeys == {"id", "category", "description", "ticket_id"}
FullCases ==
    [id : {"c1"}, category : {"happy_path", "error_handling"}, description : {"d"},
     ticket_id : {"ticket-001"}, outcome : {"raise", "pass", "fail", "nochecks"}]

\* the case without one of its keys
Without(case, key) == [k \in DOMAIN case \ {key} |-> case[k]]

EvalCases == FullCases \cup { Without(c, k) : c \in FullCases, k \in CaseKeys }

\* the largest number of cases of a golden set
MaxCases == 2

\* CaseResult(case_id, category, description, passed, checks, error)
CaseResult(case, passed, checks, error) ==
    [case_id |-> case.id, category |-> case.category, description |-> case.description,
     passed |-> passed, checks |-> checks, error |-> error]

\* run_single(case, run_triage_fn, mock_data): the result of the case, or
\* the exception of a missing key or of the run of the graph
run_single(case) ==
    IF "ticket_id" \notin DOMAIN case THEN Raised("'ticket_id'")
    ELSE IF case.outcome = "raise" THEN Raised("graph failed")
    ELSE IF "id" \notin DOMAIN case THEN Raised("'id'")
    ELSE IF "category" \notin DOMAIN case THEN Raised("'category'")
    ELSE IF "description" \notin DOMAIN case THEN Raised("'description'")
    ELSE LET checks == IF case.outcome = "nochecks" THEN EmptyDict
                       ELSE [graph_completed |-> case.outcome = "pass"]
             passed == DOMAIN checks # {} /\ (\A c \in DOMAIN checks : checks[c])
         IN  Returned(CaseResult(case, passed, checks, NoneStr))

\* one pass of the loop of run_all: the result appended for the case, or
\* the KeyError that leaves run_all from the log line or from the handler
run_case(case) ==
    IF "id" \notin DOMAIN case THEN Raised("'id'")
    ELSE IF "description" \notin DOMAIN case THEN Raised("'description'")
    ELSE LET result == run_single(case)
         IN  IF ~result.raised THEN result
             ELSE IF "category" \notin DOMAIN case THEN Raised("'category'")
             ELSE Returned(CaseResult(case, FALSE, EmptyDict, result.exc))

\* _aggregate_results(): the report over self.results, rates in percent
_aggregate_results(results) ==
    LET total == Len(results)
        passed == Len(SelectSeq(results, LAMBDA r : r.passed))
        categories == { results[i].category : i \in 1..total }
        all_checks == UNION { DOMAIN results[i].checks : i \in 1..total }
    IN  [total_cases |-> total,
         passed_cases |-> passed,
         pass_rate |-> IF total > 0 THEN (100 * passed) \div total ELSE 0,
         by_category |->
             [cat \in categories |->
                 LET n == Len(SelectSeq(results, LAMBDA r : r.category = cat))
                     p == Len(SelectSeq(results, LAMBDA r : r.category = cat /\ r.passed))
                 IN  [total |-> n, passed |-> p, rate |-> (100 * p) \div n]],
         by_check |->
             [check \in all_checks |->
                 LET n == Len(SelectSeq(results, LAMBDA r : check \in DOMAIN r.checks))
                     p == Len(SelectSeq(results, LAMBDA r : check \in DOMAIN r.checks /\ r.checks[check]))
                 IN  [total |-> n, passed |-> p, rate |-> (100 * p) \div n]],
         failed_cases |-> SelectSeq(results, LAMBDA r : ~r.passed),
         all_results |-> results]

\* run_all starts: self.results = [], the cases in arg, the results in reply
InitRunAll ==
    /\ pc = "run_all"
    /\ st = [k \in Fields |-> None]
    /\ pending = {}
    /\ updates = NoUpdates
    /\ branch = NoneStr
    /\ llmCalls = 0
    /\ fetchCalls = 0
    /\ intakeError = None
    /\ round = 0
    /\ exc = "none"
    /\ allRaised = TRUE
    /\ arg \in { Some(cases) : cases \in SeqsUpTo(EvalCases, MaxCases) }
    /\ reply = Some(<<>>)
    /\ ret = None

\* the body of the loop for the next case
RunCase ==
    /\ pc = "run_all"
    /\ Len(reply[1]) < Len(arg[1])
    /\ LET result == run_case(arg[1][Len(reply[1]) + 1])
       IN  IF result.raised
           THEN pc' = "raised" /\ exc' = "KeyError" /\ reply' = reply
           ELSE pc' = pc /\ exc' = exc /\ reply' = Some(Append(reply[1], result.update))
    /\ UNCHANGED <<st, pending, updates, branch, llmCalls, fetchCalls, intakeError,
                   round, allRaised, arg, ret>>

\* the loop is over: return self._aggregate_results()
Aggregate ==
    /\ pc = "run_all"
    /\ Len(reply[1]) = Len(arg[1])
    /\ ret' = Some(_aggregate_results(reply[1]))
    /\ pc' = "reported"
    /\ UNCHANGED <<st, pending, updates, branch, llmCalls, fetchCalls, intakeError,
                   round, exc, allRaised, arg, reply>>

NextRunAll ==
    \/ RunCase
    \/ Aggregate

RunAllSpec == InitRunAll /\ [][NextRunAll]_vars

-----------------------------------------------------------------------------

(* The retry loop *)

\* C1: in every reachable state of a run retry_count is at most 2, and the
\* fetch superstep has run at most 3 times (the first round and at most 2
\* rounds entered through widen_window).
C1_RetryBounded ==
    /\ Get(st, "retry_count", 0) <= 2
    /\ round <= 3
    /\ (pc = "widen_window" => round <= 2)

\* a run that used both retries and reached the end
C1_Witness ==
    /\ pc = "END"
    /\ st.retry_count = Some(2)
    /\ round = 3

\* C2: every run in which each call of the model returns eventually
\* executes verify and reaches END.
C2_ReachesEnd == [](exc # "ModelCallError") => <>(pc = "END")

-----------------------------------------------------------------------------
(* route_decision *)

\* the four inputs of the routing decision, read off a state
RouteInputs(state) ==
    [confidence |-> state.correlation_result[1].confidence,
     correlated |-> state.correlation_result[1].correlated,
     is_recurring |-> state.recurring_pattern[1].is_recurring,
     retry_count |-> state.retry_count[1]]

\* C3: route_decision returns "correlated" iff (correlated and confidence
\* >= 0.7) or is_recurring; otherwise "low_confidence" iff confidence < 0.4
\* and retry_count < 2; otherwise "not_correlated".
C3_RouteTable ==
    pc = "routed" =>
        LET i == RouteInputs(st) IN
        /\ branch = "correlated" <=>
               ((i.correlated /\ i.confidence >= 70000) \/ i.is_recurring)
        /\ branch = "low_confidence" <=>
               /\ ~((i.correlated /\ i.confidence >= 70000) \/ i.is_recurring)
               /\ i.confidence < 40000
               /\ i.retry_count < 2
        /\ branch \in {"correlated", "low_confidence", "not_correlated"}
        /\ (i.retry_count >= 2 => branch # "low_confidence")

\* the 0.7 boundary: correlated at exactly 0.7, not recurring
C3_Witness ==
    /\ pc = "routed"
    /\ RouteInputs(st).confidence = 70000
    /\ RouteInputs(st).correlated
    /\ ~RouteInputs(st).is_recurring
    /\ branch = "correlated"

\* C4: an evaluation of route_decision changes no field of the state, and
\* every state with the same confidence, correlated, is_recurring and
\* retry_count gets the same branch, whatever its other fields hold.
C4_RoutePure ==
    [][(pc = "call" /\ pc' = "routed") =>
          /\ st' = st
          /\ \A other \in PureStates :
                 RouteInputs(other) = RouteInputs(st) =>
                     route_decision(other) = branch']_vars

\* a routed state whose other fields are filled
C4_Witness ==
    /\ pc = "routed"
    /\ st.fetch_failures = Some(<<"github">>)
    /\ st.days_back = Some(7)
    /\ st.retry_count = Some(0)
    /\ branch = "low_confidence"

-----------------------------------------------------------------------------
(* widen_window *)

\* C5: one execution of widen_window maps days_back 1 to 3, 3 to 7, 7 to 7
\* and any other value to 7, and increases retry_count by exactly 1.
C5_WidenTable ==
    pc = "widened" =>
        LET before == arg[1] IN
        /\ st.days_back =
               Some(IF before.days_back[1] = 1 THEN 3
                    ELSE IF before.days_back[1] = 3 THEN 7
                    ELSE 7)
        /\ st.retry_count = Some(before.retry_count[1] + 1)

\* a window outside the table was widened to 7
C5_Witness ==
    /\ pc = "widened"
    /\ arg[1].days_back = Some(14)
    /\ st.days_back = Some(7)

-----------------------------------------------------------------------------
(* Failures and the final state *)

\* the recommendation of the state carries an action verify rejects
InvalidRecommendation(state) ==
    ~Contains(valid_actions,
              DictGet(Get(state, "recommendation", EmptyDict), "next_action", ""))

\* C6: no failure leaves the run as an exception, and a run that failed
\* (intake error, invalid recommendation) returns verified = false with a
\* non-null error.
C6_NoEscape ==
    /\ pc # "raised"
    /\ exc = "none"
    /\ (pc = "END" /\ (intakeError # None \/ InvalidRecommendation(st)) =>
           st.verified = Some(FALSE) /\ st.error # None)

\* C7: every final state holds verified as a boolean, and a final state
\* with verified = false holds a non-null error.
C7_FinalState ==
    pc = "END" =>
        /\ st.verified \in {Some(TRUE), Some(FALSE)}
        /\ (st.verified = Some(FALSE) => st.error # None /\ st.error # Some(""))

\* a final state that verify itself failed, after a successful intake
C7_Witness ==
    /\ pc = "END"
    /\ intakeError = None
    /\ st.verified = Some(FALSE)
    /\ st.error = Some("No next action generated")

\* C8: once intake has recorded an error, no model call and no fetcher
\* call is made in that run.
C8_ShortCircuit ==
    intakeError # None => llmCalls = 0 /\ fetchCalls = 0

\* C9: once intake has recorded an error, verified is never true and the
\* error stays the one intake recorded, up to and in the final state.
C9_IntakeErrorKept ==
    intakeError # None =>
        /\ st.verified # Some(TRUE)
        /\ st.error = intakeError

\* a run whose intake failed and that went on to its final state
C9_Witness ==
    /\ pc = "END"
    /\ intakeError # None
    /\ Get(st, "recommendation", EmptyDict) # EmptyDict
    /\ ~InvalidRecommendation(st)
    /\ st.verified = Some(FALSE)

-----------------------------------------------------------------------------
(* A fetcher whose external call raises *)

\* the external call of fetcher f raised in the superstep now ending
CallRaised(f) == updates[f] # None /\ updates[f][1].call_raised

\* C10: a fetcher whose external call raises completes like any other (the
\* superstep goes on, no exception leaves the run); when the superstep
\* ends, its list is empty, its identifier is in fetch_failures, and the
\* next node is analyze_correlation.
C10_FetchFailureAbsorbed ==
    [][/\ (pc = "fetch" /\ pending' # pending) =>
              pc' = "fetch" /\ exc' = "none"
       /\ (pc = "fetch" /\ pending = {}) =>
              /\ pc' = "analyze_correlation"
              /\ \A f \in Fetchers :
                     CallRaised(f) =>
                         /\ st'[ListField(f)] = Some(<<>>)
                         /\ Contains(st'.fetch_failures[1], f)]_vars

\* correlation is about to run after a round in which github raised
C10_Witness ==
    /\ pc = "analyze_correlation"
    /\ st.recent_prs = Some(<<>>)
    /\ st.recent_linear_tickets # Some(<<>>)
    /\ st.fetch_failures = Some(<<"github">>)

-----------------------------------------------------------------------------
(* fetch_failures across fetch rounds *)

NoDuplicates(list) ==
    \A i, j \in 1..Len(list) : list[i] = list[j] => i = j

\* C11: in every reachable state fetch_failures holds no identifier more
\* than once, and neither does the fetch_failures list of any update a
\* fetcher has returned, whatever fetchers failed in whatever rounds.
C11_NoDuplicateFailures ==
    /\ NoDuplicates(Get(st, "fetch_failures", <<>>))
    /\ \A f \in Fetchers :
           updates[f] # None => NoDuplicates(updates[f][1].update.fetch_failures[1])

\* the third round is about to be merged: all three fetchers raised again
\* and the state already lists all three from the rounds before
C11_Witness ==
    /\ pc = "fetch"
    /\ pending = {}
    /\ round = 2
    /\ \A f \in Fetchers : updates[f] # None /\ updates[f][1].call_raised
    /\ Len(Get(st, "fetch_failures", <<>>)) = 3

\* fetch_failures holds exactly the three fetchers, in some order
AllSourcesFailed(state) ==
    {Get(state, "fetch_failures", <<>>)[i] :
        i \in 1..Len(Get(state, "fetch_failures", <<>>))} = Fetchers

\* C12: a run in which every external call of every round raised ends with
\* fetch_failures equal as a set to {github, linear, intercom}, and, when
\* the recommendation's next_action is one of the three valid actions,
\* with error null and verified = true.
C12_FailuresNotErrors ==
    pc = "END" /\ allRaised =>
        /\ AllSourcesFailed(st)
        /\ (~InvalidRecommendation(st) =>
                st.error = None /\ st.verified = Some(TRUE))

\* C13: when a fetch superstep ends, fetch_failures holds every fetcher
\* whose external call raised in it and every entry it held before it, for
\* every order in which the three updates are merged.
C13_NoLostFailure ==
    [][(pc = "fetch" /\ pc' = "analyze_correlation") =>
          LET before == Get(st, "fetch_failures", <<>>)
              merged == Get(st', "fetch_failures", <<>>)
          IN  /\ \A f \in Fetchers :
                     updates[f][1].call_raised => Contains(merged, f)
              /\ \A i \in 1..Len(before) : Contains(merged, before[i])]_vars

\* the second round has been merged: intercom, listed since the first
\* round, returned a record this time, next to github and linear
C13_Witness ==
    /\ pc = "analyze_correlation"
    /\ round = 2
    /\ st.fetch_failures = Some(<<"intercom", "github", "linear">>)
    /\ st.recent_intercom_tickets # Some(<<>>)
    /\ st.recent_prs = Some(<<>>)
    /\ st.recent_linear_tickets = Some(<<>>)

-----------------------------------------------------------------------------
(* The join barrier of a fetch round *)

\* the fetchers that have returned their update in the current superstep
Completed == {f \in Fetchers : updates[f] # None}

\* C14: in every fetch round each of the three fetchers runs exactly once
\* (fetchCalls counts them), correlation starts only when all three of the
\* round have completed, it runs once per round (llmCalls counts the
\* classification and one correlation per round), and widen_window is
\* entered only after the correlation of the round before it.
C14_JoinBarrier ==
    /\ pc = "fetch" =>
           /\ Completed \cup pending = Fetchers
           /\ Completed \cap pending = {}
           /\ fetchCalls = 3 * round + Cardinality(Completed)
           /\ llmCalls = 1 + round
    /\ pc = "analyze_correlation" =>
           /\ round >= 1
           /\ fetchCalls = 3 * round
           /\ Completed = {} /\ pending = {}
           /\ llmCalls = round
           /\ \A f \in Fetchers : st[ListField(f)] # None
    /\ pc \in {"route", "widen_window", "generate_recommendation"} =>
           /\ fetchCalls = 3 * round
           /\ Completed = {} /\ pending = {}
           /\ llmCalls = 1 + round
           /\ st.correlation_result # None

\* the third round is under way: two fetchers are done, one is not
C14_Witness ==
    /\ pc = "fetch"
    /\ round = 2
    /\ Cardinality(pending) = 1
    /\ fetchCalls = 8

-----------------------------------------------------------------------------
(* The verification gate *)

\* the next_action of the state's recommendation ("" when there is none)
NextActionOf(state) ==
    DictGet(Get(state, "recommendation", EmptyDict), "next_action", "")

\* an upstream error is recorded: error holds a non-empty message
ErrorRecorded(state) == state.error # None /\ state.error # Some("")

C16_ErrorFirst ==
    pc = "verified" /\ ErrorRecorded(arg[1]) =>
        /\ st.verified = Some(FALSE)
        /\ st.error = arg[1].error

\* an upstream error met a recommendation without next_action and stayed
C16_Witness ==
    /\ pc = "verified"
    /\ arg[1].error = Some("upstream failure")
    /\ NextActionOf(arg[1]) = ""
    /\ arg[1].verified = Some(TRUE)
    /\ st.error = Some("upstream failure")
    /\ st.verified = Some(FALSE)

\* C17: a recommendation output whose next_action is null or empty ends
\* the run with verified = false and error "No next action generated", and
\* one whose next_action is outside the three valid actions ends it with
\* verified = false and a non-null error.  (A null next_action is the only
\* source of AttributeError; an error recorded by intake takes precedence
\* over the message, by C16.)
C17_DefectSurfaces ==
    /\ exc # "AttributeError"
    /\ pc = "END" /\ InvalidRecommendation(st) =>
           /\ st.verified = Some(FALSE)
           /\ st.error # None
           /\ (NextActionOf(st) \in {"", NoneStr} /\ intakeError = None =>
                   st.error = Some("No next action generated"))

\* two states that differ at most in fetch_failures
SameButFailures(s, t) ==
    \A k \in Fields \ {"fetch_failures"} : s[k] = t[k]

\* C18: verify gives two states that differ only in fetch_failures (not
\* set, empty, partial, all three sources) the same verified value and the
\* same error.
C18_FailuresIgnored ==
    pc = "verified" =>
        \A other \in NodeStates :
            SameButFailures(other, arg[1]) =>
                LET after == ApplyUpdate(other, verify(other))
                IN  after.verified = st.verified /\ after.error = st.error

\* a state listing all three sources as failed was verified
C18_Witness ==
    /\ pc = "verified"
    /\ AllSourcesFailed(arg[1])
    /\ st.verified = Some(TRUE)
    /\ st.error = None

-----------------------------------------------------------------------------
(* The fields a fetcher writes *)

\* the list each fetcher owns
OwnList ==
    [github |-> "recent_prs", linear |-> "recent_linear_tickets",
     intercom |-> "recent_intercom_tickets"]

\* C19: the update a fetcher returns holds its own list and fetch_failures
\* and nothing else, and merging the three updates of a round gives each
\* list the value its own fetcher returned and leaves every field other
\* than the three lists and fetch_failures as it was.
C19_FetcherFrame ==
    [][/\ (pc = "fetch" /\ pending' # pending) =>
              /\ st' = st
              /\ \A f \in pending \ pending' :
                     /\ DOMAIN updates'[f][1].update = {OwnList[f], "fetch_failures"}
                     /\ \A g \in Fetchers \ {f} : updates'[g] = updates[g]
       /\ (pc = "fetch" /\ pc' = "analyze_correlation") =>
              /\ \A f \in Fetchers :
                     st'[OwnList[f]] = updates[f][1].update[OwnList[f]]
              /\ \A k \in Fields :
                     k \notin {OwnList[f] : f \in Fetchers} \cup {"fetch_failures"}
                         => st'[k] = st[k]]_vars

\* a retry round has been merged: each list holds its own fetcher's records
\* and the scalar fields are set
C19_Witness ==
    /\ pc = "analyze_correlation"
    /\ round = 2
    /\ \A f \in Fetchers :
           /\ st[OwnList[f]] # None
           /\ Len(st[OwnList[f]][1]) >= 1
           /\ st[OwnList[f]][1][1].source = f
    /\ st.issue_type # None
    /\ st.retry_count = Some(1)
    /\ st.days_back = Some(3)

-----------------------------------------------------------------------------
(* The keep_last reducer *)

\* the fields reduced with keep_last
KeepLastFields == Fields \ {"fetch_failures"}

\* C20: when a node's update is merged, every keep_last field takes the
\* update's value if the update holds a non-null one and keeps its own
\* value otherwise; so a field that is set is never null afterwards.
C20_KeepLast ==
    [][(pc = "call" /\ pc' \in {"intake_done", "verified"}) =>
          LET update == IF pc' = "intake_done" THEN intake(st) ELSE verify(st)
          IN  \A k \in KeepLastFields :
                  /\ st'[k] = IF k \in DOMAIN update /\ update[k] # None
                              THEN update[k] ELSE st[k]
                  /\ (st[k] # None => st'[k] # None)]_vars

\* intake accepted the ticket of a state that held an error: its update
\* carried error None and the error is still there
C20_Witness ==
    /\ pc = "intake_done"
    /\ arg[1].error = Some("upstream failure")
    /\ "error" \in DOMAIN intake(arg[1])
    /\ intake(arg[1]).error = None
    /\ st.retry_count = Some(0)
    /\ st.error = Some("upstream failure")

-----------------------------------------------------------------------------
(* Defaults and coercions of the model's answers *)

IssueTypes == {"frontend", "backend", "infra", "unclear"}

-----------------------------------------------------------------------------
(* Model calls and the order of the steps *)

\* the steps that call the model
LlmSteps == {"classify_issue_type", "analyze_correlation", "generate_recommendation"}

\* C22: each execution of a step that calls the model calls it exactly
\* once; when the call raises, the run ends at that step: the state is
\* left as it was, no fetcher runs and the model is not called again.
C22_NoRetry ==
    [][/\ pc # "raised"
       /\ pc \in LlmSteps => llmCalls' = llmCalls + 1
       /\ pc \notin LlmSteps => llmCalls' = llmCalls
       /\ exc' = "ModelCallError" =>
              pc' = "raised" /\ st' = st /\ fetchCalls' = fetchCalls]_vars

\* the steps that may follow each step of a run
Successors ==
    [intake |-> {"classify_issue_type"},
     classify_issue_type |-> {"fetch", "raised"},
     fetch |-> {"fetch", "analyze_correlation"},
     analyze_correlation |-> {"route", "raised"},
     route |-> {"generate_recommendation", "widen_window"},
     widen_window |-> {"fetch"},
     generate_recommendation |-> {"verify", "raised"},
     verify |-> {"END"},
     END |-> {},
     raised |-> {}]

\* C23: the steps follow the order classification, fetch round,
\* correlation, routing, then recommendation, verification and the end, or
\* widen_window and another fetch round; classification, recommendation
\* and verification are never entered a second time; recommendation is
\* entered only from branch correlated or not_correlated and widen_window
\* only from low_confidence.
C23_StepOrder ==
    [][/\ pc' \in Successors[pc]
       /\ pc' = "classify_issue_type" => llmCalls = 0 /\ round = 0
       /\ pc' = "generate_recommendation" =>
              /\ pc = "route"
              /\ branch' \in {"correlated", "not_correlated"}
              /\ st.recommendation = None
       /\ pc' = "widen_window" => pc = "route" /\ branch' = "low_confidence"
       /\ pc' = "verify" => st.verified = None /\ st'.recommendation # None
       /\ (pc = "route" /\ branch' = "low_confidence") => pc' = "widen_window"]_vars

\* a run that retried once and then recommended and verified
C23_Witness ==
    /\ pc = "END"
    /\ round = 2
    /\ branch = "not_correlated"
    /\ st.retry_count = Some(1)
    /\ st.verified = Some(TRUE)

-----------------------------------------------------------------------------
(* The arguments of the external calls *)

\* C24: in every fetch round each fetcher that has run passed its external
\* call the days_back of the state (1 when none is set) and the
\* reference_date of the run.
C24_CallArguments ==
    \A f \in Fetchers :
        updates[f] # None =>
            /\ updates[f][1].args.days_back = Get(st, "days_back", 1)
            /\ updates[f][1].args.reference_date = Get(st, "reference_date", NoneStr)

-----------------------------------------------------------------------------
(* intake on a state that already carries values *)

\* the ticket has a non-empty subject and a non-empty body
TicketComplete(state) ==
    /\ state.ticket # None
    /\ ~IsMissing(state.ticket[1], "subject")
    /\ ~IsMissing(state.ticket[1], "body")

\* C25: after intake of a ticket with non-empty subject and body the state
\* has retry_count = 0, days_back = 1, fetch_failures empty and error
\* null, whatever the state handed to intake held in those fields.
C25_IntakeResets ==
    pc = "intake_done" /\ TicketComplete(arg[1]) =>
        /\ st.retry_count = Some(0)
        /\ st.days_back = Some(1)
        /\ Get(st, "fetch_failures", <<>>) = <<>>
        /\ st.error = None

-----------------------------------------------------------------------------
(* The correlated path *)

\* the first correlation of a run on a complete ticket has returned
\* correlated = true with confidence >= 0.7
FirstCorrelationHigh(state, rounds) ==
    /\ rounds = 1
    /\ TicketComplete(state)
    /\ state.correlation_result # None
    /\ state.correlation_result[1].correlated
    /\ state.correlation_result[1].confidence >= 70000

-----------------------------------------------------------------------------
(* The matched_item of a correlation *)

\* the state with another matched_item in its correlation_result
WithItem(state, item) ==
    [state EXCEPT !.correlation_result = Some([@[1] EXCEPT !.matched_item = item])]

\* the title and the id a matched_item names ("" when it names none)
TitleOf(item) ==
    IF item.kind = "str" THEN item.text
    ELSE IF item.kind = "dict" THEN DictGet(item.dict, "title", <<>>)
    ELSE <<>>
IdOf(item) == IF item.kind = "dict" THEN DictGet(item.dict, "id", <<>>) ELSE <<>>

\* a name and a text of an entry that are both given, one inside the other
\* whatever the case
SameTitle(name, text) ==
    /\ name # <<>>
    /\ text # <<>>
    /\ In(lower(name), lower(text)) \/ In(lower(text), lower(name))

\* the matched_item of the state matches an entry of one of the three lists:
\* by its title, or by its id found in a PR title or a Linear identifier
MatchesEntry(state) ==
    LET item == Get(state, "correlation_result", EmptyDict).matched_item
        prs == Get(state, "recent_prs", <<>>)
        linear == Get(state, "recent_linear_tickets", <<>>)
        intercom == Get(state, "recent_intercom_tickets", <<>>)
    IN  \/ \E i \in 1..Len(prs) :
              \/ SameTitle(TitleOf(item), DictGet(prs[i], "title", <<>>))
              \/ IdOf(item) # <<>> /\ In(IdOf(item), DictGet(prs[i], "title", <<>>))
        \/ \E i \in 1..Len(linear) :
              \/ SameTitle(TitleOf(item), DictGet(linear[i], "title", <<>>))
              \/ IdOf(item) # <<>> /\ In(IdOf(item), DictGet(linear[i], "identifier", <<>>))
        \/ \E i \in 1..Len(intercom) :
              SameTitle(TitleOf(item), DictGet(intercom[i], "subject", <<>>))

\* verify on a final state ends as it ends on the same state with a null
\* matched_item: it returns, with the same verified and error
C29_GateIgnoresItem ==
    pc \in {"verified", "raised"} /\ arg # None =>
        LET plain == ApplyUpdate(WithItem(arg[1], NoItem), verify(WithItem(arg[1], NoItem)))
        IN  /\ pc = "verified"
            /\ st.verified = plain.verified
            /\ st.error = plain.error

\* the hallucination check returns true when correlated is false or
\* matched_item is null, and false when correlated is true and matched_item
\* matches no entry
C29_CheckerFlags ==
    pc = "checked" =>
        LET correlation == Get(arg[1], "correlation_result", EmptyDict)
        IN  /\ ((~correlation.correlated) \/ correlation.matched_item.kind = "null"
                   => ret = Some(TRUE))
            /\ (correlation.correlated /\ correlation.matched_item.kind # "null"
                    /\ ~MatchesEntry(arg[1])
                   => ret = Some(FALSE))

\* C29: a matched_item that matches no entry of the three fetched lists is
\* not fatal to the workflow: the verified and error that verify gives do
\* not depend on matched_item, the hallucination check of the evaluator
\* returns false for such a state when correlated is true, and returns true
\* whenever correlated is false or matched_item is null.
C29_MatchedItemNotFatal ==
    /\ C29_GateIgnoresItem
    /\ C29_CheckerFlags

-----------------------------------------------------------------------------
(* The parser of model responses *)

\* two results of the parser are the same: the same exception, or the same
\* object
SameResult(r1, r2) ==
    /\ r1.raised = r2.raised
    /\ IF r1.raised THEN r1.exc = r2.exc ELSE r1.update = r2.update

\* C30: for every well-formed object, parsing the text that holds it in a
\* fenced block with a comma before its closing brace gives the same object
\* as parsing its text without the fence and without the comma.
C30_ParserRoundTrip ==
    pc \in {"parsed_fenced", "parsed_plain"} =>
        LET in == arg[1]
            fenced == _parse_json_text(FencedText(in.obj, in.layout, in.tagged))
            plain == _parse_json_text(ObjectText(in.obj, in.layout, FALSE))
        IN  /\ ret = Some(IF pc = "parsed_fenced" THEN fenced ELSE plain)
            /\ SameResult(fenced, plain)

-----------------------------------------------------------------------------
(* The fields a step owns *)

\* the fields the step at pc may change
OwnFields(step) ==
    IF step = "classify_issue_type" THEN {"issue_type", "target_repos"}
    ELSE IF step = "analyze_correlation" THEN {"correlation_result", "recurring_pattern"}
    ELSE IF step = "widen_window" THEN {"retry_count", "days_back"}
    ELSE IF step = "generate_recommendation" THEN {"recommendation"}
    ELSE IF step = "verify" THEN {"verified", "error"}
    ELSE Fields

\* C31: every step other than the fetchers leaves the fields it does not
\* own unchanged: classification changes only issue_type and target_repos,
\* correlation only correlation_result and recurring_pattern, widen_window
\* only retry_count and days_back, recommendation only recommendation,
\* verification only verified and error; widen_window keeps the fetched
\* lists and fetch_failures.
C31_StepFrame ==
    [][\A k \in Fields \ OwnFields(pc) : st'[k] = st[k]]_vars

\* widen_window has run on a state that held fetched records and a failed
\* source, and changed the window
C31_Witness ==
    /\ pc = "fetch"
    /\ pending = Fetchers
    /\ st.retry_count = Some(1)
    /\ st.days_back = Some(3)
    /\ Get(st, "recent_prs", <<>>) # <<>>
    /\ Get(st, "fetch_failures", <<>>) # <<>>

-----------------------------------------------------------------------------
(* The fetched lists over the rounds *)

\* C32: each fetched list is replaced wholesale at the end of every fetch
\* round and never accumulated: the list of a source is then exactly what
\* its fetcher returned in that round, the empty list when its call raised,
\* whatever the list held before.
C32_ListsReplaced ==
    [][(pc = "fetch" /\ pc' = "analyze_correlation") =>
          \A source \in Fetchers :
              LET done == updates[source][1]
                  list == Get(st', ListField(source), <<>>)
              IN  /\ st'[ListField(source)] = done.update[ListField(source)]
                  /\ done.call_raised => list = <<>>
                  /\ \A i \in 1..Len(list) :
                         /\ list[i].source = source
                         /\ list[i].days_back = done.args.days_back]_vars

\* the end of a retry round in which the call of fetch_github raised, on a
\* state that holds the pull requests the round before it fetched
C32_Witness ==
    /\ pc = "fetch"
    /\ pending = {}
    /\ round >= 1
    /\ Get(st, "recent_prs", <<>>) # <<>>
    /\ updates["github"][1].call_raised
    /\ ~updates["linear"][1].call_raised
    /\ updates["linear"][1].update["recent_linear_tickets"][1] # <<>>

-----------------------------------------------------------------------------
(* retry_count and days_back together *)

\* C33: in every reachable state of a run whose intake succeeded, the pair
\* (retry_count, days_back) is one of (0, 1), (1, 3), (2, 7), so each retry
\* round fetches with a strictly larger days_back than the round before.
C33_WindowPairs ==
    (pc # "intake" /\ intakeError = None) =>
        /\ <<st.retry_count, st.days_back>> \in
               { <<Some(0), Some(1)>>, <<Some(1), Some(3)>>, <<Some(2), Some(7)>> }
        /\ \A source \in Fetchers :
               updates[source] # None =>
                   updates[source][1].args.days_back = Get(st, "days_back", 1)

\* the third fetch round of a run, on the widest window
C33_Witness ==
    /\ pc = "analyze_correlation"
    /\ intakeError = None
    /\ round = 3
    /\ st.retry_count = Some(2)
    /\ st.days_back = Some(7)

-----------------------------------------------------------------------------
(* fetch_failures over the rounds *)

\* C34: fetch_failures only grows during a run: an identifier it holds is
\* still there in every later state, also when that source succeeds in a
\* later round, so a final state can list a source in fetch_failures while
\* the list of that source is not empty.
C34_FailuresGrow ==
    [][\A source \in Fetchers :
          Contains(Get(st, "fetch_failures", <<>>), source) =>
              Contains(Get(st', "fetch_failures", <<>>), source)]_vars

\* a final state that lists github as failed and holds pull requests
C34_Witness ==
    /\ pc = "END"
    /\ Contains(Get(st, "fetch_failures", <<>>), "github")
    /\ Get(st, "recent_prs", <<>>) # <<>>

-----------------------------------------------------------------------------
(* The calls of a run *)

\* C35: in every run that reaches verify, the number of fetch rounds and
\* the number of executions of analyze_correlation (the calls of the model
\* other than the one of classify_issue_type and the one of
\* generate_recommendation) both equal the final retry_count + 1, at most
\* 3, so the model is called at most 5 times and the fetchers at most 9.
C35_CallCounts ==
    pc \in {"verify", "END"} =>
        LET rounds == Get(st, "retry_count", 0) + 1
        IN  /\ rounds <= 3
            /\ round = rounds
            /\ llmCalls - 2 = rounds
            /\ llmCalls <= 5
            /\ fetchCalls = 3 * rounds
            /\ fetchCalls <= 9

\* a run that ends after both retries: 3 rounds, 5 calls of the model and
\* 9 calls of the fetchers
C35_Witness ==
    /\ pc = "END"
    /\ st.retry_count = Some(2)
    /\ round = 3
    /\ llmCalls = 5
    /\ fetchCalls = 9

-----------------------------------------------------------------------------
(* The GitHub fetcher *)

\* GITHUB_TOKEN is not set (or set to the empty string)
TokenUnset(env) == env.token \in {NoneStr, ""}

\* the records of a list that come from one repository
OfRepo(list, repo_name) == SelectSeq(list, LAMBDA r : r.repo = repo_name)

\* the entries of a list of repository names that are this name
OfNames(repos, repo_name) == SelectSeq(repos, LAMBDA r : r = repo_name)

\* C36: fetch_github_prs raises only when GITHUB_TOKEN is unset; a failure
\* while reading one repository is swallowed and the pull requests of the
\* other repositories are returned all the same, so that failure never
\* puts github into fetch_failures.
C36_RaisesOnlyWithoutToken ==
    pc \in {"prs_done", "fetched"} =>
        LET in == arg[1]
        IN  /\ ret[1].raised => TokenUnset(in)
            /\ ~TokenUnset(in) =>
                   /\ ~ret[1].raised
                   /\ \A repo_name \in Repos :
                          OfRepo(ret[1].update, repo_name) =
                              fetch_github_prs(in, OfNames(in.repos, repo_name), in.days_back,
                                               in.reference_date).update
                   /\ pc = "fetched" => ~Contains(Get(st, "fetch_failures", <<>>), "github")

\* the date the window of a call ends at
BaseDate(in) == IF in.reference_date = NoneStr THEN Today ELSE 26

\* C37: every record fetch_github_prs returns belongs to one of the
\* repositories of the argument list, is a merged pull request of it, and
\* has merged_at not earlier than the base date minus days_back; with an
\* empty list of repositories the result is the empty list.
C37_RecordsInWindow ==
    (pc \in {"prs_done", "fetched"} /\ ~ret[1].raised) =>
        LET in == arg[1]
            prs == ret[1].update
        IN  /\ \A i \in 1..Len(prs) :
                   /\ Contains(in.repos, prs[i].repo)
                   /\ \E pr \in Pulls :
                          /\ Contains(RepoPulls(in.api, prs[i].repo), pr)
                          /\ pr.title = prs[i].title
                          /\ pr.merged
                          /\ pr.merged_at = Some(prs[i].merged_at)
                   /\ prs[i].merged_at >= BaseDate(in) - in.days_back
            /\ in.repos = <<>> => prs = <<>>

\* a call that returned the pull request merged on the first day of the
\* window and left out one merged before it
C37_Witness ==
    /\ pc = "prs_done"
    /\ ~ret[1].raised
    /\ arg[1].days_back = 1
    /\ arg[1].reference_date = "2026-01-26"
    /\ arg[1].repos = <<"acme/web", "acme/api">>
    /\ \E i \in 1..Len(arg[1].api.web) : arg[1].api.web[i].title = "p20"
    /\ \E i \in 1..Len(ret[1].update) :
           ret[1].update[i].repo = "acme/web" /\ ret[1].update[i].merged_at = 25

-----------------------------------------------------------------------------
(* The evaluator over its cases *)

\* C38: in run_all an exception raised while running one case is recorded
\* as a failed result that carries the error text and does not stop the
\* other cases: run_all returns a report that holds exactly one result per
\* case, in the order of the cases, and passed_cases is at most total_cases.
C38_OneResultPerCase ==
    /\ pc # "raised"
    /\ pc = "reported" =>
           LET cases == arg[1]
               report == ret[1]
           IN  /\ Len(report.all_results) = Len(cases)
               /\ report.total_cases = Len(cases)
               /\ report.passed_cases <= report.total_cases
               /\ \A i \in 1..Len(cases) :
                      LET result == report.all_results[i]
                      IN  /\ result.case_id = cases[i].id
                          /\ result.category = cases[i].category
                          /\ run_single(cases[i]).raised =>
                                 /\ ~result.passed
                                 /\ result.error = run_single(cases[i]).exc
                          /\ ~run_single(cases[i]).raised =>
                                 /\ result.error = NoneStr
                                 /\ result.passed = (cases[i].outcome = "pass")

====
